---- MODULE Spec2Model ----
(***************************************************************************)
(* Model of the image metadata pipeline of hayde0096/iead.                 *)
(*                                                                         *)
(* Part I  (specification Spec): the pipeline orchestrator of              *)
(*   src/lib/image-handler.js, the MetadataStore of src/lib/image-exif.js, *)
(*   the UI entry points of src/unnamed/part_000 and the DOM swap of       *)
(*   src/lib/scratch-effect.js, as an event-loop state machine: one action *)
(*   per task of the browser's event queue (a handler, or a continuation   *)
(*   of an await together with the microtasks that follow it).             *)
(* Part II (specification CodecSpec): the PNG chunk codec of               *)
(*   src/lib/image-exif.js on byte sequences.                              *)
(* Part III (specification WalkSpec): the chunk walk of                    *)
(*   extractPngMetadata, one loop iteration at a time.                     *)
(* Part IV (specification ExifSpec): injectExifToDataUrl.                  *)
(* Part V (specification ReadSpec): extractExifData.                       *)
(***************************************************************************)
EXTENDS Integers, Sequences, FiniteSets, TLC

(* ------------------------------ bounds -------------------------------- *)
\* number of source-image load requests in one run
MaxLoads == 2
\* number of transform requests (auto and manual together) in one run
MaxXforms == 2
\* number of requests (loads and transform requests together) in one run
MaxOps == 3
\* number of different user files offered to the pipeline
NumFiles == 2

\* every load and every delivered transform creates one blob URL
MaxUrls == MaxLoads + MaxXforms
\* a display-img element is created when none exists: once at first, and
\* once more after each scratch view, which a transform delivers
MaxElems == MaxXforms + 1

Loads == 1..MaxLoads
Xforms == 1..MaxXforms
Files == 1..NumFiles
Urls == 1..MaxUrls
Elems == 1..MaxElems

(* --------------------------- user files -------------------------------- *)
\* The user files, by what the code can observe of them: whether the bytes
\* start with the PNG signature, and whether they carry metadata (tEXt
\* entries for a PNG, EXIF tags for a JPEG).
\*   odd: PNG, even: JPEG; files 1 and 2 carry metadata, later ones none
IsPngFile(f) == f % 2 = 1
HasMeta(f) == f <= 2

\* "no metadata" (null); any other value f stands for "the metadata of file f"
NoMeta == 0
\* (mutant of PngTextOf: the text entries of the file are not returned)
PngTextOfDropsText(f) == NoMeta
\* result of extractPngMetadata on the bytes of file f
PngTextOf(f) == IF IsPngFile(f) /\ HasMeta(f) THEN f ELSE NoMeta
\* result of EXIF.getAllTags on an image decoded from file f
ExifOf(f) == IF ~IsPngFile(f) /\ HasMeta(f) THEN f ELSE NoMeta
FormatOf(f) == IF IsPngFile(f) THEN "png" ELSE "jpeg"

AutoActions == {"none", "encrypt", "decrypt"}
DisplayModes == {"direct", "scratch", "scratch-transparent"}

(* ------------------------------ state ---------------------------------- *)
VARIABLES
    originalExifData,     \* MetadataStore: EXIF tags
    originalPngMetadata,  \* MetadataStore: PNG text entries
    originalImageFormat,  \* MetadataStore: "jpeg" | "png"
    elems,      \* the display elements ever created (img + processing-state)
    cur,        \* the element set now in the document (and DOM_CACHE); 0: none
    nElems,     \* elements created so far
    scratch,    \* a .scratch-container is in the image container
    urls,       \* blob URLs created by URL.createObjectURL
    revoked,    \* how many times each URL was passed to URL.revokeObjectURL
    nUrls,      \* URLs created so far
    load,       \* the load requests: position of setSrc and of its handler
    nLoads,     \* load requests so far
    xf,         \* the transform requests: position of encrypt/decryptAndDisplay
    nXf,        \* transform requests so far
    alerts,     \* number of alert() messages shown to the user
    pngBlob,          \* codec: the bytes given to injectPngMetadata
    metadata,         \* codec: the keyword -> text mapping given to it
    metadataAbsent,   \* codec: the mapping given to it is null
    blobWithMetadata, \* codec: the bytes injectPngMetadata returned
    extracted,        \* codec: what extractPngMetadata returned for them
    step,             \* codec: "idle" | "input" | "injected" | "extracted" | "read"
    walkBytes,        \* chunk walk: the bytes extractPngMetadata is reading
    walkOffset,       \* chunk walk: `offset`
    walked,           \* chunk walk: the local `metadata` collected so far
    walkSt,           \* chunk walk: "idle" | "start" | "test" | "body" | "ret" | "done"
    exifInj,          \* a call of injectExifToDataUrl: its arguments and what it did
    exifRead,         \* a call of extractExifData: the reader and the promise
    isScratchingEffect,   \* dom-utils.js: the global scratching flag
    overlay,    \* the scratch views: which have their events bound, are being
                \* drawn on, are scratched beyond the threshold, lost their canvas
    timers      \* the canvases with a removal timer (setTimeout) pending

store == <<originalExifData, originalPngMetadata, originalImageFormat>>
pipeVars == <<originalExifData, originalPngMetadata, originalImageFormat,
              elems, cur, nElems, scratch, urls, revoked, nUrls,
              load, nLoads, xf, nXf, alerts>>
walkVars == <<walkBytes, walkOffset, walked, walkSt>>
scratchVars == <<isScratchingEffect, overlay, timers>>
codecVars == <<pngBlob, metadata, metadataAbsent, blobWithMetadata, extracted, step, walkVars,
               exifInj, exifRead, scratchVars>>
vars == <<pipeVars, codecVars>>

NoHandler == [load |-> 0, kind |-> "none"]
\* no call of extractExifData. reader: the global EXIF is "missing", or what
\* EXIF.getData does when called: "calls" its callback, "throws", or returns
\* and stays "silent"; tags and tagsThrow: what EXIF.getAllTags gives in the
\* callback (the tag names, or a throw); promise and value: the state of the
\* returned promise and the value it resolved to (none: null)
NoExifRead == [st |-> "idle", reader |-> "missing", tags |-> {}, tagsThrow |-> FALSE,
               promise |-> "none", value |-> [none |-> TRUE, tags |-> {}],
               settles |-> 0]
\* the exifObj of injectExifToDataUrl before any tag is copied into it
EmptyExifObj == [zeroth |-> {}, exif |-> {}, gps |-> {}]
\* no call of injectExifToDataUrl: exifData (null when absent, else the set
\* of its tag names; falsy: those of them whose value is falsy, as 0 or ""),
\* whether piexif is defined, the calls of piexif.dump and
\* the exifObj given to it, and the returned value ("dataUrl": the argument,
\* "newDataUrl": what piexif.insert returned)
NoExifCall == [st |-> "idle", absent |-> TRUE, exifData |-> {}, falsy |-> {},
               piexif |-> FALSE,
               dumpCalls |-> 0, exifObj |-> EmptyExifObj, result |-> "none"]
\* a display element set: the img (src, onload, a decode in progress, its
\* style.display) and the processing-state indicator's style.display
\* no scratch view was created, the flag has its initial value
NoOverlay == [bound |-> {}, drawing |-> {}, over |-> {}, removed |-> {}]
NoScratch == isScratchingEffect = FALSE /\ overlay = NoOverlay /\ timers = {}

NewElem == [src |-> 0, onload |-> NoHandler, loading |-> FALSE,
            shown |-> FALSE, proc |-> FALSE]
NoUrl == [kind |-> "none", origin |-> 0, fmt |-> "jpeg", png |-> NoMeta,
          exif |-> NoMeta, bound |-> FALSE, depth |-> 0]
NoLoad == [st |-> "unused", mode |-> "none", asked |-> FALSE,
           file |-> 0, url |-> 0, elem |-> 0,
           runs |-> 0, pend |-> 0, hurl |-> 0, pngSet |-> FALSE, exifSet |-> FALSE,
           pngGot |-> NoMeta, exifGot |-> NoMeta, fmtGot |-> "unread",
           auto |-> "unread"]
NoXf == [st |-> "unused", kind |-> "none", elem |-> 0, by |-> 0, born |-> 0,
         pix |-> 0, fmt |-> "jpeg", png |-> NoMeta, exif |-> NoMeta,
         mode |-> "direct", procElem |-> 0, out |-> 0, ready |-> FALSE,
         injected |-> TRUE]

\* what extractPngMetadata returns: the format it recorded, and the mapping
\* (a sequence of <<keyword, text>> entries) or none (null)
NoneFound(fmt) == [format |-> fmt, none |-> TRUE, metadata |-> <<>>]

PipelineInit ==
    /\ originalExifData = NoMeta
    /\ originalPngMetadata = NoMeta
    /\ originalImageFormat = "jpeg"
    /\ elems = [g \in Elems |-> NewElem]
    /\ cur = 0
    /\ nElems = 0
    /\ scratch = FALSE
    /\ urls = [u \in Urls |-> NoUrl]
    /\ revoked = [u \in Urls |-> 0]
    /\ nUrls = 0
    /\ load = [l \in Loads |-> NoLoad]
    /\ nLoads = 0
    /\ xf = [t \in Xforms |-> NoXf]
    /\ nXf = 0
    /\ alerts = 0

Init ==
    /\ PipelineInit
    /\ pngBlob = <<>>
    /\ metadata = <<>>
    /\ metadataAbsent = FALSE
    /\ blobWithMetadata = <<>>
    /\ extracted = NoneFound("jpeg")
    /\ step = "idle"
    /\ walkBytes = <<>>
    /\ walkOffset = 0
    /\ walked = <<>>
    /\ walkSt = "idle"
    /\ exifInj = NoExifCall
    /\ exifRead = NoExifRead
    /\ NoScratch


(* ----------------------- MetadataStore (image-exif.js) ------------------ *)
\* (mutant of ResetMetadata: the PNG slot is not cleared)
ResetMetadataKeepsPng == [exif |-> NoMeta, png |-> originalPngMetadata, fmt |-> "jpeg"]

\* resetMetadata(): the three slots after the call
ResetMetadata == [exif |-> NoMeta, png |-> NoMeta, fmt |-> "jpeg"]

(* ------------------------- DOM (image-handler.js) ----------------------- *)
\* The DOM as a value: D.els the element sets, D.cur the one in the document,
\* D.n how many were created.
Dom == [els |-> elems, cur |-> cur, n |-> nElems]

\* rebuildImageDOM: reuse the elements of the document or create them, then
\* img.src = "" (which ends a decode in progress), hide img and indicator.
RebuildImageDOM(D) ==
    LET g == IF D.cur = 0 THEN D.n + 1 ELSE D.cur
        e == IF D.cur = 0 THEN NewElem ELSE D.els[g]
    IN  [els |-> [D.els EXCEPT ![g] = [e EXCEPT !.src = 0, !.loading = FALSE,
                                                !.shown = FALSE, !.proc = FALSE]],
         cur |-> g,
         n   |-> IF D.cur = 0 THEN D.n + 1 ELSE D.n]

\* showProcessing on the element set g (0: the arguments are null)
ShowProcessing(els, g) ==
    IF g = 0 THEN els ELSE [els EXCEPT ![g].shown = FALSE, ![g].proc = TRUE]

\* hideProcessing on the indicator of element set g (0: null)
HideProcessing(els, g) ==
    IF g = 0 THEN els ELSE [els EXCEPT ![g].proc = FALSE]

\* img.src = u; img.style.display = "block"; processingState hidden
\* (the three lines that end every branch of setSrc)
AssignSrc(els, g, u) ==
    [els EXCEPT ![g].src = u, ![g].loading = TRUE, ![g].shown = TRUE,
                ![g].proc = FALSE]

\* (mutant of Branch: the extract branch is taken whenever skipAuto is false)
BranchIgnoresPreserve(skipAuto, preserveExif, hasBlob) ==
    IF ~skipAuto THEN "extract" ELSE "direct"

\* Which branch of setSrc the flags select.
Branch(skipAuto, preserveExif, hasBlob) ==
    IF preserveExif /\ ~skipAuto /\ hasBlob THEN "extract"
    ELSE IF ~skipAuto THEN "auto"
    ELSE "direct"

\* The handler the "auto" branch binds for the auto-action a.
AutoHandler(L, a) ==
    IF a = "encrypt" THEN [load |-> L, kind |-> "enc"]
    ELSE IF a = "decrypt" THEN [load |-> L, kind |-> "dec"]
    ELSE NoHandler

\* (mutant of SetSrcSync: the extract branch assigns img.src before it awaits
\* extractPngMetadata, the handler being bound after the await)
SetSrcSyncAssignsEarly(D, rv, u, L, br, a) ==
    LET D1 == IF D.cur = 0 THEN RebuildImageDOM(D) ELSE D
        g  == D1.cur
        old == D1.els[g].src
        rv1 == IF old # 0 THEN [rv EXCEPT ![old] = @ + 1] ELSE rv
        e1 == [D1.els EXCEPT ![g].onload = NoHandler]
        e2 == IF br = "auto"
              THEN AssignSrc([e1 EXCEPT ![g].onload = AutoHandler(L, a)], g, u)
              ELSE AssignSrc(e1, g, u)
    IN  [els |-> e2, cur |-> g, n |-> D1.n, rv |-> rv1, bound |-> TRUE]

\* (mutant of SetSrcSync: without `if (img) img.onload = null`)
SetSrcSyncKeepsOnload(D, rv, u, L, br, a) ==
    LET D1 == IF D.cur = 0 THEN RebuildImageDOM(D) ELSE D
        g  == D1.cur
        old == D1.els[g].src
        rv1 == IF old # 0 THEN [rv EXCEPT ![old] = @ + 1] ELSE rv
        e1 == D1.els
        e2 == IF br = "extract" THEN e1
              ELSE IF br = "auto"
                   THEN AssignSrc(IF AutoHandler(L, a) = NoHandler THEN e1
                                  ELSE [e1 EXCEPT ![g].onload = AutoHandler(L, a)], g, u)
              ELSE AssignSrc(e1, g, u)
    IN  [els |-> e2, cur |-> g, n |-> D1.n, rv |-> rv1, bound |-> br # "extract"]

\* (mutant of SetSrcSync: the skipAuto branch binds the auto-action's handler
\* as the `else if (!skipAuto)` branch does)
SetSrcSyncDirectBindsAuto(D, rv, u, L, br, a) ==
    LET D1 == IF D.cur = 0 THEN RebuildImageDOM(D) ELSE D
        g  == D1.cur
        old == D1.els[g].src
        rv1 == IF old # 0 THEN [rv EXCEPT ![old] = @ + 1] ELSE rv
        e1 == [D1.els EXCEPT ![g].onload = NoHandler]
        e2 == IF br = "extract" THEN e1
              ELSE AssignSrc([e1 EXCEPT ![g].onload = AutoHandler(L, a)], g, u)
    IN  [els |-> e2, cur |-> g, n |-> D1.n, rv |-> rv1, bound |-> br # "extract"]

\* setSrc up to its first suspension point (or its end), on the DOM D and the
\* revocation counts rv, for URL u of load L (0: a transform's output), in
\* branch br with auto-action a. Gives the DOM, the revocation counts and
\* whether u was assigned to img.src.
SetSrcSync(D, rv, u, L, br, a) ==
    LET D1 == IF D.cur = 0 THEN RebuildImageDOM(D) ELSE D
        g  == D1.cur
        old == D1.els[g].src
        rv1 == IF old # 0 THEN [rv EXCEPT ![old] = @ + 1] ELSE rv
        e1 == [D1.els EXCEPT ![g].onload = NoHandler]
        e2 == IF br = "extract" THEN e1
              ELSE IF br = "auto"
                   THEN AssignSrc([e1 EXCEPT ![g].onload = AutoHandler(L, a)], g, u)
              ELSE AssignSrc(e1, g, u)
    IN  [els |-> e2, cur |-> g, n |-> D1.n, rv |-> rv1, bound |-> br # "extract"]

\* URL.createObjectURL for the bytes of source file f, loaded by load L
SourceUrl(f, L) ==
    [kind |-> "src", origin |-> L, fmt |-> FormatOf(f), png |-> PngTextOf(f),
     exif |-> ExifOf(f), bound |-> FALSE, depth |-> 0]

(* --------------------------- load requests ------------------------------ *)
\* A caller's load: rebuildImageDOM(imgContainer), then
\* setSrc(URL.createObjectURL(file), ..., skipAuto, preserveExif, sourceBlob).
\* drop: the document's drop handler, which first removes .scratch-container.
LoadRequest(f, drop, skipAuto, preserveExif, hasBlob, a) ==
    /\ nLoads < MaxLoads
    /\ UNCHANGED codecVars
    /\ nLoads + nXf < MaxOps
    /\ LET L  == nLoads + 1
           u  == nUrls + 1
           br == Branch(skipAuto, preserveExif, hasBlob)
           R  == SetSrcSync(RebuildImageDOM(Dom), revoked, u, L, br, a)
       IN  /\ originalExifData' = ResetMetadata.exif
           /\ originalPngMetadata' = ResetMetadata.png
           /\ originalImageFormat' = ResetMetadata.fmt
           /\ elems' = R.els
           /\ cur' = R.cur
           /\ nElems' = R.n
           /\ revoked' = R.rv
           /\ scratch' = IF drop THEN FALSE ELSE scratch
           /\ urls' = [urls EXCEPT ![u] = [SourceUrl(f, L) EXCEPT !.bound = R.bound]]
           /\ nUrls' = u
           /\ nLoads' = L
           /\ load' = [load EXCEPT ![L] =
                 [NoLoad EXCEPT !.st = IF br = "extract" THEN "png"
                                       ELSE IF br = "auto" /\ a # "none" THEN "armed"
                                       ELSE "fin",
                                !.mode = br, !.asked = (preserveExif /\ hasBlob),
                                !.file = f, !.url = u, !.elem = R.cur,
                                !.auto = IF br = "auto" THEN a ELSE "unread"]]
           /\ UNCHANGED <<xf, nXf, alerts>>

\* The UI handlers (file input change, restore button, clipboard paste, page
\* paste, drop): all call setSrc(url, ..., false, true, file).
UILoad(f, drop) == LoadRequest(f, drop, FALSE, TRUE, TRUE, "none")

\* setSrc as the entry point, with the flags a caller may pass.
EntryLoad(f, skipAuto, preserveExif, hasBlob, a) ==
    /\ ~(preserveExif /\ ~skipAuto /\ hasBlob)
    /\ LoadRequest(f, FALSE, skipAuto, preserveExif, hasBlob, a)


(* ------------------- continuations of a load (setSrc) ------------------- *)
\* performImageOperation / createImageOperationHandler: showProcessing on the
\* caller's elements, then requestAnimationFrame(handler): the request waits
\* in state "raf".
CanDispatch == nXf < MaxXforms /\ nLoads + nXf < MaxOps

\* Ready: no load is between its request and the end of its extraction.
Ready == \A L \in Loads : load[L].st \in {"unused", "fin"} /\ load[L].pend = 0

\* born and ready record when the request was made: how many loads had begun,
\* and whether the pipeline was Ready (an auto transform is dispatched by the
\* step that ends the extraction).
DispatchXf(kind, g, L) ==
    [NoXf EXCEPT !.st = "raf", !.kind = kind, !.elem = g, !.by = L,
                 !.born = nLoads, !.ready = IF L = 0 THEN Ready ELSE TRUE]

\* (mutant of ExtractHandler: the handler dispatches the transform at once,
\* as the handler of the "auto" branch does, without the EXIF extraction)
ExtractHandlerSkipsExif(L) == [load |-> L, kind |-> "enc"]

\* The onload handler the "extract" branch binds: it awaits extractExifData.
ExtractHandler(L) == [load |-> L, kind |-> "exif"]

\* (mutant of PngResolve: the handler is bound and img.src assigned without
\* the result of extractPngMetadata being stored)
PngResolveUnstored(L, ok) ==
    /\ load[L].st = "png"
    /\ UNCHANGED codecVars
    /\ LET g == load[L].elem
           u == load[L].url
       IN  /\ elems' = AssignSrc([elems EXCEPT ![g].onload = ExtractHandler(L)], g, u)
           /\ urls' = [urls EXCEPT ![u].bound = TRUE]
           /\ load' = [load EXCEPT ![L].st = "armed"]
    /\ UNCHANGED <<originalExifData, originalPngMetadata, originalImageFormat,
                   cur, nElems, scratch, revoked, nUrls, nLoads, xf, nXf, alerts>>

\* The await of extractPngMetadata(sourceBlob) resolves and setSrc goes on in
\* the same microtask checkpoint: the format is recorded (unless reading the
\* bytes failed, ok = FALSE, where the catch returns null), the result is
\* stored, the onload handler is bound and only then img.src is assigned.
PngResolve(L, ok) ==
    /\ load[L].st = "png"
    /\ UNCHANGED codecVars
    /\ LET f == load[L].file
           g == load[L].elem
           u == load[L].url
           res == IF ok THEN PngTextOf(f) ELSE NoMeta
       IN  /\ originalImageFormat' = IF ok THEN FormatOf(f) ELSE originalImageFormat
           /\ originalPngMetadata' = res
           /\ elems' = AssignSrc([elems EXCEPT ![g].onload = ExtractHandler(L)], g, u)
           /\ urls' = [urls EXCEPT ![u].bound = TRUE]
           /\ load' = [load EXCEPT ![L].st = "armed", ![L].pngSet = TRUE,
                                   ![L].pngGot = res,
                                   ![L].fmtGot = IF ok THEN FormatOf(f) ELSE "unread"]
    /\ UNCHANGED <<originalExifData, cur, nElems, scratch, revoked, nUrls,
                   nLoads, xf, nXf, alerts>>

\* The load event of element g: the decode of its src completed. Whatever
\* handler is in img.onload now runs up to its first suspension point.
ImgLoad(g) ==
    /\ elems[g].loading
    /\ UNCHANGED codecVars
    /\ LET h == elems[g].onload
           L == h.load
       IN  CASE h.kind = "none" ->
                 /\ elems' = [elems EXCEPT ![g].loading = FALSE]
                 /\ UNCHANGED <<load, xf, nXf>>
             [] h.kind = "exif" ->
                 \* await extractExifData(img): the handler stays bound
                 /\ elems' = [elems EXCEPT ![g].loading = FALSE]
                 /\ load' = [load EXCEPT ![L].runs = @ + 1, ![L].pend = @ + 1,
                                         ![L].hurl = elems[g].src]
                 /\ UNCHANGED <<xf, nXf>>
             [] OTHER ->
                 \* the handler of the "auto" branch: img.onload = null,
                 \* showProcessing, requestAnimationFrame(transform)
                 /\ CanDispatch
                 /\ elems' = ShowProcessing(
                        [elems EXCEPT ![g].loading = FALSE, ![g].onload = NoHandler],
                        g)
                 /\ load' = [load EXCEPT ![L].runs = @ + 1, ![L].st = "fin", ![L].elem = 0]
                 /\ xf' = [xf EXCEPT ![nXf + 1] =
                        DispatchXf(IF h.kind = "enc" THEN "encrypt" ELSE "decrypt", g, L)]
                 /\ nXf' = nXf + 1
    /\ UNCHANGED <<originalExifData, originalPngMetadata, originalImageFormat,
                   cur, nElems, scratch, urls, revoked, nUrls, nLoads, alerts>>

\* What the onload handler of load L does after `await extractExifData(img)`
\* resolved with tags: store them, unbind the handler, read the auto-action a
\* and either dispatch the transform or make the current elements visible.
AfterExif(L, tags, a) ==
    LET g  == load[L].elem
        e1 == [elems EXCEPT ![g].onload = NoHandler]
    IN  /\ originalExifData' = tags
        /\ load' = [load EXCEPT ![L].pend = @ - 1, ![L].st = "fin",
                                ![L].elem = IF load[L].pend = 1 THEN 0 ELSE @,
                                ![L].hurl = 0,
                                ![L].exifSet = TRUE, ![L].exifGot = tags,
                                ![L].auto = a]
        /\ IF a = "none"
           THEN /\ elems' = IF cur = 0 THEN e1
                            ELSE [e1 EXCEPT ![cur].shown = TRUE, ![cur].proc = FALSE]
                /\ UNCHANGED <<xf, nXf>>
           ELSE /\ CanDispatch
                /\ elems' = ShowProcessing(e1, g)
                /\ xf' = [xf EXCEPT ![nXf + 1] = DispatchXf(a, g, L)]
                /\ nXf' = nXf + 1
        /\ UNCHANGED alerts

\* The await of extractExifData(img) in the onload handler of load L ends.
\* thrown: EXIF.getData raised inside the promise executor, the await rejects
\* and the handler's catch runs (hideProcessing, alert).
ExifResolve(L, thrown, a) ==
    /\ load[L].pend > 0
    /\ UNCHANGED codecVars
    /\ IF thrown
       THEN /\ elems' = HideProcessing(elems, load[L].elem)
            /\ alerts' = alerts + 1
            /\ load' = [load EXCEPT ![L].pend = @ - 1]
            /\ UNCHANGED <<originalExifData, xf, nXf>>
       ELSE AfterExif(L, IF load[L].hurl = 0 THEN NoMeta
                         ELSE urls[load[L].hurl].exif, a)
    /\ UNCHANGED <<originalPngMetadata, originalImageFormat, cur, nElems,
                   scratch, urls, revoked, nUrls, nLoads>>

(* --------------------------- transforms --------------------------------- *)
\* Encrypt / decrypt button (createImageOperationHandler): needs a current
\* display-img with a src; no other guard.
ManualTransform(kind) ==
    /\ CanDispatch
    /\ UNCHANGED codecVars
    /\ cur # 0
    /\ elems[cur].src # 0
    /\ elems' = ShowProcessing(elems, cur)
    /\ xf' = [xf EXCEPT ![nXf + 1] = DispatchXf(kind, cur, 0)]
    /\ nXf' = nXf + 1
    /\ UNCHANGED <<originalExifData, originalPngMetadata, originalImageFormat,
                   cur, nElems, scratch, urls, revoked, nUrls, load, nLoads, alerts>>

\* The animation frame: encryptAndDisplay / decryptAndDisplay is called and
\* suspends at `await encryptImage(img)`; the transform reads the pixels the
\* img element holds now.
RafFire(T) ==
    /\ xf[T].st = "raf"
    /\ UNCHANGED codecVars
    /\ xf' = [xf EXCEPT ![T].st = "run", ![T].pix = elems[xf[T].elem].src]
    /\ UNCHANGED <<originalExifData, originalPngMetadata, originalImageFormat,
                   elems, cur, nElems, scratch, urls, revoked, nUrls, load,
                   nLoads, nXf, alerts>>

\* The record of a transform request whose call has ended (its closure is
\* gone): how it ended, who dispatched it, the URL of its output.
Settled(t, how, u) ==
    [NoXf EXCEPT !.st = how, !.kind = t.kind, !.by = t.by, !.born = t.born,
                 !.out = u, !.pix = t.pix, !.ready = t.ready, !.injected = t.injected]

\* The opaque transform settles. Rejected (ok = FALSE): nothing catches it.
\* Resolved: decrypt reads the display mode and looks up #processing-state;
\* the format slot is read; for "png" canvas.toBlob is pending, for "jpeg"
\* injectExifToDataUrl reads the EXIF slot now (injOK = FALSE: piexif missing
\* or throwing, the data URL stays as it was) and the fetch is pending.
XformResolve(T, ok, mode, injOK) ==
    /\ xf[T].st = "run"
    /\ UNCHANGED codecVars
    /\ LET t == xf[T]
           d == [t EXCEPT !.mode = IF t.kind = "decrypt" /\ mode # "direct"
                                    THEN "scratch" ELSE "direct",
                          !.procElem = IF t.kind = "decrypt" THEN cur ELSE 0]
       IN  xf' = [xf EXCEPT ![T] =
              IF ~ok THEN Settled(t, "failed", 0)
              ELSE IF originalImageFormat = "png"
                   THEN [d EXCEPT !.st = "toblob", !.fmt = "png"]
                   ELSE [d EXCEPT !.st = "fetch", !.fmt = "jpeg",
                                  !.exif = IF injOK THEN originalExifData ELSE NoMeta,
                                  !.injected = injOK]]
    /\ UNCHANGED <<originalExifData, originalPngMetadata, originalImageFormat,
                   elems, cur, nElems, scratch, urls, revoked, nUrls, load,
                   nLoads, nXf, alerts>>

\* The output blob of transform request t (a record of xf) is displayed:
\* scratch modes build the scratch DOM (createScratchDOM: the container is
\* emptied, a new img gets a new URL); otherwise rebuildImageDOM and
\* setSrc(URL.createObjectURL(blob), ..., true, false). decryptAndDisplay then
\* calls hideProcessing on the indicator it looked up.
Deliver(T, t) ==
    LET u == nUrls + 1
        info == [kind |-> "out",
                 origin |-> IF t.pix = 0 THEN 0 ELSE urls[t.pix].origin,
                 fmt |-> t.fmt, png |-> t.png, exif |-> t.exif, bound |-> TRUE,
                 depth |-> IF t.pix = 0 THEN 1 ELSE urls[t.pix].depth + 1]
    IN  /\ nUrls' = u
        /\ xf' = [xf EXCEPT ![T] = Settled(t, "done", u)]
        /\ IF t.kind = "decrypt" /\ t.mode # "direct"
           THEN /\ urls' = [urls EXCEPT ![u] = [info EXCEPT !.kind = "scratch"]]
                /\ cur' = 0
                /\ scratch' = TRUE
                /\ elems' = HideProcessing(elems, t.procElem)
                /\ UNCHANGED <<originalExifData, originalPngMetadata,
                               originalImageFormat, nElems, revoked>>
           ELSE LET R == SetSrcSync(RebuildImageDOM(Dom), revoked, u, 0, "direct", "none")
                IN  /\ urls' = [urls EXCEPT ![u] = info]
                    /\ originalExifData' = ResetMetadata.exif
                    /\ originalPngMetadata' = ResetMetadata.png
                    /\ originalImageFormat' = ResetMetadata.fmt
                    /\ cur' = R.cur
                    /\ nElems' = R.n
                    /\ revoked' = R.rv
                    /\ elems' = IF t.kind = "decrypt"
                                THEN HideProcessing(R.els, t.procElem) ELSE R.els
                    /\ UNCHANGED scratch
        /\ UNCHANGED <<load, nLoads, nXf, alerts>>

\* The canvas.toBlob callback: injectPngMetadata(blob, getOriginalPngMetadata())
\* reads the PNG slot now. With nothing stored it returns the blob at once and
\* the callback goes on in the same microtask checkpoint; otherwise it
\* suspends at `await pngBlob.arrayBuffer()`.
ToBlobCb(T) ==
    /\ xf[T].st = "toblob"
    /\ UNCHANGED codecVars
    /\ IF originalPngMetadata = NoMeta
       THEN Deliver(T, [xf[T] EXCEPT !.png = NoMeta])
       ELSE /\ xf' = [xf EXCEPT ![T].st = "inject", ![T].png = originalPngMetadata]
            /\ UNCHANGED <<originalExifData, originalPngMetadata, originalImageFormat,
                           elems, cur, nElems, scratch, urls, revoked, nUrls,
                           load, nLoads, nXf, alerts>>

\* (mutant of InjectResolve: without the catch, a failure ends the callback)
InjectResolveUncaught(T, ok) ==
    /\ xf[T].st = "inject"
    /\ UNCHANGED codecVars
    /\ IF ok THEN Deliver(T, xf[T])
       ELSE /\ xf' = [xf EXCEPT ![T] = Settled(xf[T], "failed", 0)]
            /\ UNCHANGED <<originalExifData, originalPngMetadata, originalImageFormat,
                           elems, cur, nElems, scratch, urls, revoked, nUrls,
                           load, nLoads, nXf, alerts>>

\* injectPngMetadata ends: with the chunks inserted, or (ok = FALSE) through
\* its catch, which returns the blob it was given.
InjectResolve(T, ok) ==
    /\ xf[T].st = "inject"
    /\ UNCHANGED codecVars
    /\ Deliver(T, [xf[T] EXCEPT !.png = IF ok THEN @ ELSE NoMeta, !.injected = ok])

\* fetch(dataUrlWithExif).then(res => res.blob()).then(...) settles.
FetchResolve(T) ==
    /\ xf[T].st = "fetch"
    /\ UNCHANGED codecVars
    /\ Deliver(T, xf[T])

(* ---------------------------- specification ----------------------------- *)
Next ==
    \/ \E f \in Files, drop \in BOOLEAN : UILoad(f, drop)
    \/ \E L \in Loads, ok \in BOOLEAN : PngResolve(L, ok)
    \/ \E g \in Elems : ImgLoad(g)
    \/ \E L \in Loads, th \in BOOLEAN, a \in AutoActions : ExifResolve(L, th, a)
    \/ \E k \in {"encrypt", "decrypt"} : ManualTransform(k)
    \/ \E T \in Xforms : RafFire(T)
    \/ \E T \in Xforms, ok, inj \in BOOLEAN, m \in DisplayModes : XformResolve(T, ok, m, inj)
    \/ \E T \in Xforms : ToBlobCb(T)
    \/ \E T \in Xforms, ok \in BOOLEAN : InjectResolve(T, ok)
    \/ \E T \in Xforms : FetchResolve(T)

\* The program as its UI drives it.
Spec == Init /\ [][Next]_vars

\* The same with setSrc also called with the other flag combinations its
\* signature allows (the branches that skip extraction).
NextApi ==
    \/ Next
    \/ \E f \in Files, s, p, b \in BOOLEAN, a \in AutoActions : EntryLoad(f, s, p, b, a)

SpecApi == Init /\ [][NextApi]_vars

TypeOK ==
    /\ cur \in 0..MaxElems
    /\ nElems \in 0..MaxElems
    /\ nUrls \in 0..MaxUrls
    /\ nLoads \in 0..MaxLoads
    /\ nXf \in 0..MaxXforms


(* ======================================================================= *)
(*                       Properties of the pipeline                       *)
(* ======================================================================= *)
StoreEmpty == originalExifData = NoMeta /\ originalPngMetadata = NoMeta

\* the transform requests dispatched by the onload handler of load L
DispatchedBy(L) == {T \in Xforms : xf[T].st # "unused" /\ xf[T].by = L}

\* requests whose encryptAndDisplay / decryptAndDisplay call is running
Running == {T \in Xforms : xf[T].st \in {"run", "toblob", "inject", "fetch"}}

\* C1: for a load with preserveExif, !skipAuto and a source blob, the onload
\* handler dispatches the transform at most once, and only after the PNG-text
\* result and the EXIF result of that load were stored; when it read
\* auto-action = encrypt it dispatched exactly one encrypt; and in a run with
\* this single load and no transform output shown yet, the store holds both
\* results while that transform waits or runs.
C1_TransformOnceAfterExtraction ==
    \A L \in Loads : load[L].mode = "extract" =>
        /\ Cardinality(DispatchedBy(L)) <= 1
        /\ DispatchedBy(L) # {} => load[L].pngSet /\ load[L].exifSet
        /\ (load[L].st = "fin" /\ load[L].auto = "encrypt") =>
              \E T \in DispatchedBy(L) : xf[T].kind = "encrypt"
        /\ \A T \in DispatchedBy(L) :
              (nLoads = 1 /\ xf[T].st \in {"raf", "run"}
                 /\ \A T2 \in Xforms : xf[T2].st # "done")
              => /\ originalPngMetadata = load[L].pngGot
                 /\ originalExifData = load[L].exifGot

\* C1 witness: the encrypt transform dispatched by the handler of a PNG load
\* with text entries has been invoked.
C1_Witness ==
    \E L \in Loads, T \in Xforms :
        /\ load[L].mode = "extract" /\ load[L].pngGot # NoMeta
        /\ xf[T].by = L /\ xf[T].kind = "encrypt" /\ xf[T].st = "run"

\* C2: a load request made while a blob URL A is bound to the display image
\* revokes A exactly once and does not revoke the new URL B.
C2_LoadRevokesBoundUrlOnce ==
    [][(nLoads' = nLoads + 1 /\ cur # 0 /\ elems[cur].src # 0)
         => (revoked'[elems[cur].src] = 1 /\ revoked'[nUrls'] = 0)]_vars

\* C3: at most one blob URL that was bound to an image of the container is
\* not revoked.
C3_AtMostOneLiveUrl ==
    Cardinality({u \in Urls : urls[u].bound /\ revoked[u] = 0}) <= 1

\* C4: once a newer load has begun, a step of a continuation of an earlier
\* load A (which moves A's record) neither writes the MetadataStore, nor
\* assigns an img src, nor dispatches a transform.
C4_NoStaleContinuation ==
    [][\A A \in Loads : (A < nLoads /\ load'[A] # load[A]) =>
          /\ store' = store
          /\ \A g \in Elems : elems'[g].src = elems[g].src
          /\ nXf' = nXf]_vars

\* C5: a transform that read an image delivers its output (binding it,
\* resetting the store) only if no load was requested since the transform was
\* dispatched.
C5_SupersededTransformDropped ==
    [][\A T \in Xforms :
          (xf[T].st # "done" /\ xf'[T].st = "done" /\ xf[T].pix # 0)
          => xf[T].born = nLoads]_vars

\* C6: no two transform calls on the same image run at the same time.
C6_AtMostOneTransformRunning ==
    \A T1, T2 \in Running : xf[T1].pix = xf[T2].pix => T1 = T2

\* C7: when the opaque transform rejects, a message is shown and the
\* processing-state indicator of the document is hidden.
C7_RejectionSurfaced ==
    [][\A T \in Xforms : (xf[T].st = "run" /\ xf'[T].st = "failed") =>
          /\ alerts' = alerts + 1
          /\ cur' # 0 => ~elems'[cur'].proc]_vars

\* C8: in a run with one source load with preservation whose bytes were read
\* and where no injection step failed, a transform requested in Ready, alone
\* or on the output of the one transform before it, gives an output in the
\* source's format that carries the metadata extracted from the source.
C8_OutputKeepsFormatAndMetadata ==
    \A T \in Xforms :
        LET u == xf[T].out
            o == urls[u].origin
        IN  ( /\ nLoads = 1
              /\ xf[T].st = "done" /\ xf[T].ready
              /\ \A T2 \in Xforms : xf[T2].injected
              /\ \A T2 \in Xforms \ {T} :
                    \/ xf[T2].st = "unused"
                    \/ xf[T2].st = "done" /\ xf[T2].out = xf[T].pix
              /\ o # 0 /\ load[o].mode = "extract"
              /\ load[o].fmtGot = FormatOf(load[o].file) )
            => /\ urls[u].fmt = FormatOf(load[o].file)
               /\ urls[u].fmt = "png" => urls[u].png = load[o].pngGot
               /\ urls[u].fmt = "jpeg" => urls[u].exif = load[o].exifGot

\* C9: every setSrc call (a load request on any branch, or the display of a
\* transform's output) leaves the EXIF and the PNG slot absent when it
\* suspends or returns, before any extraction of that load has run.
C9_ResetOnEveryLoad ==
    [][( \/ nLoads' = nLoads + 1
         \/ \E T \in Xforms : /\ xf[T].st # "done" /\ xf'[T].st = "done"
                              /\ urls'[xf'[T].out].kind = "out" )
       => /\ originalExifData' = NoMeta
          /\ originalPngMetadata' = NoMeta
          /\ nLoads' = nLoads + 1 =>
                 /\ ~load'[nLoads'].pngSet /\ ~load'[nLoads'].exifSet
                 /\ load'[nLoads'].runs = 0]_vars

\* C9 witness: the second load was requested when the store held the text
\* entries of the first, and has reset it.
C9_Witness ==
    /\ nLoads = 2 /\ nXf = 0
    /\ load[1].pngSet /\ load[1].pngGot # NoMeta
    /\ load[2].st \in {"png", "fin"}
    /\ StoreEmpty

(* ======================================================================= *)
(*          Part II: the PNG chunk codec of src/lib/image-exif.js          *)
(* ======================================================================= *)
\* A buffer (Uint8Array) is a sequence of bytes, a string a sequence of
\* Unicode code points, a mapping (an object with string keys) the sequence
\* of its <<keyword, text>> entries in property order.

\* longest text of an entry, and most entries of a mapping, in the inputs
MaxTextLen == 2
MaxEntries == 2

(* ------------------------------ bytes ----------------------------------- *)
\* bytes[i] at offset i (from 0); outside the buffer the read gives
\* undefined, which the code's uses (<<, |, String.fromCharCode, !==) take as 0
At(b, i) == IF i >= 0 /\ i < Len(b) THEN b[i + 1] ELSE 0

\* a relative index of TypedArray.prototype.slice, brought into 0..len
Clamp(rel, len) ==
    IF rel < 0 THEN (IF len + rel < 0 THEN 0 ELSE len + rel)
    ELSE IF rel > len THEN len ELSE rel

\* bytes.slice(start, end)
Slice(b, start, end) ==
    LET s == Clamp(start, Len(b))
        e == Clamp(end, Len(b))
    IN  IF e <= s THEN <<>> ELSE SubSeq(b, s + 1, e)

\* (b0 << 24) | (b1 << 16) | (b2 << 8) | b3 at offset off: a signed 32-bit value
ChunkLength(b, off) ==
    LET b0 == At(b, off)
    IN  (IF b0 >= 128 THEN b0 - 256 ELSE b0) * 16777216
        + At(b, off + 1) * 65536 + At(b, off + 2) * 256 + At(b, off + 3)

\* String.fromCharCode of the four bytes at offset off
ChunkType(b, off) == <<At(b, off), At(b, off + 1), At(b, off + 2), At(b, off + 3)>>

TypeTEXt == <<116, 69, 88, 116>>
TypeITXt == <<105, 84, 88, 116>>
TypeIEND == <<73, 69, 78, 68>>
TypeIDAT == <<73, 68, 65, 84>>
TypeIHDR == <<73, 72, 68, 82>>
PngSignature == <<137, 80, 78, 71, 13, 10, 26, 10>>

\* DataView.setUint32(_, n, false): n in four bytes, big-endian (n < 2^31)
U32BE(n) == <<n \div 16777216, (n \div 65536) % 256, (n \div 256) % 256, n % 256>>

(* ---------------------------- text codecs ------------------------------- *)
\* TextEncoder.encode of one code point: UTF-8 (a lone surrogate becomes U+FFFD)
EncodeCodePoint(cp) ==
    IF cp < 128 THEN <<cp>>
    ELSE IF cp < 2048 THEN <<192 + (cp \div 64), 128 + (cp % 64)>>
    ELSE IF cp >= 55296 /\ cp <= 57343 THEN <<239, 191, 189>>
    ELSE IF cp < 65536
         THEN <<224 + (cp \div 4096), 128 + ((cp \div 64) % 64), 128 + (cp % 64)>>
    ELSE <<240 + (cp \div 262144), 128 + ((cp \div 4096) % 64),
           128 + ((cp \div 64) % 64), 128 + (cp % 64)>>

RECURSIVE Utf8Encode(_)
\* new TextEncoder().encode(s)
Utf8Encode(s) ==
    IF s = <<>> THEN <<>> ELSE EncodeCodePoint(Head(s)) \o Utf8Encode(Tail(s))

\* The code points TextDecoder('latin1') gives for the bytes 0x80..0x9F: the
\* label latin1 names the windows-1252 decoder.
Windows1252High ==
    <<8364, 129, 8218, 402, 8222, 8230, 8224, 8225, 710, 8240, 352, 8249, 338,
      141, 381, 143, 144, 8216, 8217, 8220, 8221, 8226, 8211, 8212, 732, 8482,
      353, 8250, 339, 157, 382, 376>>

\* new TextDecoder('latin1').decode(bs)
Latin1Decode(bs) ==
    [i \in 1..Len(bs) |->
        IF bs[i] >= 128 /\ bs[i] <= 159 THEN Windows1252High[bs[i] - 127] ELSE bs[i]]

IsCont(x) == x >= 128 /\ x <= 191
\* the second byte a three- or four-byte UTF-8 sequence may have after lead b0
SecondOK(b0, b1) ==
    IF b0 = 224 THEN b1 >= 160 /\ b1 <= 191
    ELSE IF b0 = 237 THEN b1 >= 128 /\ b1 <= 159
    ELSE IF b0 = 240 THEN b1 >= 144 /\ b1 <= 191
    ELSE IF b0 = 244 THEN b1 >= 128 /\ b1 <= 143
    ELSE IsCont(b1)

RECURSIVE Utf8DecodeFrom(_, _)
\* the UTF-8 decoder from offset i: an ill-formed sequence gives one U+FFFD
\* for its longest prefix that starts a well-formed one
Utf8DecodeFrom(bs, i) ==
    IF i >= Len(bs) THEN <<>>
    ELSE LET b0 == At(bs, i)
             b1 == At(bs, i + 1)
             b2 == At(bs, i + 2)
             b3 == At(bs, i + 3)
         IN  IF b0 < 128 THEN <<b0>> \o Utf8DecodeFrom(bs, i + 1)
             ELSE IF b0 >= 194 /\ b0 <= 223
                  THEN IF IsCont(b1)
                       THEN <<(b0 - 192) * 64 + (b1 - 128)>> \o Utf8DecodeFrom(bs, i + 2)
                       ELSE <<65533>> \o Utf8DecodeFrom(bs, i + 1)
             ELSE IF b0 >= 224 /\ b0 <= 239
                  THEN IF ~SecondOK(b0, b1) THEN <<65533>> \o Utf8DecodeFrom(bs, i + 1)
                       ELSE IF ~IsCont(b2) THEN <<65533>> \o Utf8DecodeFrom(bs, i + 2)
                       ELSE <<(b0 - 224) * 4096 + (b1 - 128) * 64 + (b2 - 128)>>
                            \o Utf8DecodeFrom(bs, i + 3)
             ELSE IF b0 >= 240 /\ b0 <= 244
                  THEN IF ~SecondOK(b0, b1) THEN <<65533>> \o Utf8DecodeFrom(bs, i + 1)
                       ELSE IF ~IsCont(b2) THEN <<65533>> \o Utf8DecodeFrom(bs, i + 2)
                       ELSE IF ~IsCont(b3) THEN <<65533>> \o Utf8DecodeFrom(bs, i + 3)
                       ELSE <<(b0 - 240) * 262144 + (b1 - 128) * 4096
                              + (b2 - 128) * 64 + (b3 - 128)>>
                            \o Utf8DecodeFrom(bs, i + 4)
             ELSE <<65533>> \o Utf8DecodeFrom(bs, i + 1)

\* new TextDecoder('utf-8').decode(bs): a leading byte order mark is dropped
Utf8Decode(bs) ==
    IF Len(bs) >= 3 /\ bs[1] = 239 /\ bs[2] = 187 /\ bs[3] = 191
    THEN Utf8DecodeFrom(bs, 3)
    ELSE Utf8DecodeFrom(bs, 0)

(* -------------------------------- CRC ----------------------------------- *)
\* A 32-bit word is the tuple of its four bytes, most significant first.
RECURSIVE XorBits(_, _, _)
\* a ^ b on the n low bits
XorBits(a, b, n) ==
    IF n = 0 THEN 0
    ELSE ((a + b) % 2) + 2 * XorBits(a \div 2, b \div 2, n - 1)

Xor32(x, y) ==
    <<XorBits(x[1], y[1], 8), XorBits(x[2], y[2], 8),
      XorBits(x[3], y[3], 8), XorBits(x[4], y[4], 8)>>

\* x >>> 1
Shr1(x) ==
    <<x[1] \div 2, (x[1] % 2) * 128 + (x[2] \div 2),
      (x[2] % 2) * 128 + (x[3] \div 2), (x[3] % 2) * 128 + (x[4] \div 2)>>

\* (mutant of CrcPolynomial: the polynomial in its unreflected form 0x04C11DB7)
CrcPolynomialUnreflected == <<4, 193, 29, 183>>

\* 0xEDB88320 and 0xFFFFFFFF
CrcPolynomial == <<237, 184, 131, 32>>
AllOnes == <<255, 255, 255, 255>>

Bytes == 0..255
Words == Bytes \X Bytes \X Bytes \X Bytes

\* one round of the inner loop: (crc >>> 1) ^ ((crc & 1) ? 0xEDB88320 : 0)
CrcRound[crc \in Words] ==
    IF crc[4] % 2 = 1 THEN Xor32(Shr1(crc), CrcPolynomial) ELSE Shr1(crc)

\* the body of the outer loop: crc = crc ^ data[i], then eight rounds
CrcByte[crc \in Words, x \in Bytes] ==
    LET c0 == Xor32(crc, <<0, 0, 0, x>>)
    IN  CrcRound[CrcRound[CrcRound[CrcRound[CrcRound[CrcRound[CrcRound[CrcRound[c0]]]]]]]]

RECURSIVE CrcFold(_, _, _)
\* the outer loop over data from index i (from 1)
CrcFold(crc, data, i) ==
    IF i > Len(data) THEN crc
    ELSE CrcFold(CrcByte[crc, data[i]], data, i + 1)

\* calculateCRC(data), as the four bytes setUint32 writes
CalculateCRC(data) == Xor32(CrcFold(AllOnes, data, 1), AllOnes)

(* ------------------------- extractPngMetadata --------------------------- *)
RECURSIVE FirstZero(_, _)
\* the loop `while (i < chunkData.length && chunkData[i] !== 0) i++` from i
FirstZero(d, i) == IF i < Len(d) /\ At(d, i) # 0 THEN FirstZero(d, i + 1) ELSE i

\* the key "__proto__"
ProtoKey == <<95, 95, 112, 114, 111, 116, 111, 95, 95>>

\* "4294967294", the largest array index
MaxArrayIndex == <<52, 50, 57, 52, 57, 54, 55, 50, 57, 52>>

\* a < b for decimal numerals without leading zeros
NumLess(a, b) ==
    \/ Len(a) < Len(b)
    \/ /\ Len(a) = Len(b)
       /\ \E i \in 1..Len(a) : a[i] < b[i] /\ \A j \in 1..(i - 1) : a[j] = b[j]

\* the key is an array index: a canonical decimal numeral up to 2^32 - 2
IsArrayIndex(k) ==
    /\ Len(k) > 0
    /\ \A n \in 1..Len(k) : k[n] \in 48..57
    /\ Len(k) = 1 \/ k[1] # 48
    /\ ~NumLess(MaxArrayIndex, k)

\* metadata[keyword] = text, with m the own keys in the order Object.keys and
\* Object.entries give them: array-index keys first, in ascending numeric
\* order, then the other keys in the order they were added. An own key keeps
\* its place. For the key "__proto__" the assignment goes to the prototype
\* setter of the object literal, which ignores a string: no own key is made.
ObjSet(m, k, v) ==
    IF k = ProtoKey THEN m
    ELSE IF \E n \in 1..Len(m) : m[n][1] = k
    THEN [n \in 1..Len(m) |-> IF m[n][1] = k THEN <<k, v>> ELSE m[n]]
    ELSE IF IsArrayIndex(k)
    THEN LET p == Cardinality({n \in 1..Len(m) :
                        IsArrayIndex(m[n][1]) /\ NumLess(m[n][1], k)})
         IN  SubSeq(m, 1, p) \o <<<<k, v>>>> \o SubSeq(m, p + 1, Len(m))
    ELSE Append(m, <<k, v>>)

\* The entry read from the data d of a tEXt or iTXt chunk: the keyword is the
\* bytes before the first zero, one char per byte; the text of tEXt is the
\* rest through TextDecoder('latin1'); for iTXt two flag bytes and two
\* zero-terminated fields are skipped and the rest is decoded as UTF-8.
TextEntry(type, d) ==
    LET i  == FirstZero(d, 0)
        j1 == FirstZero(d, i + 3) + 1
        j2 == FirstZero(d, j1) + 1
    IN  <<SubSeq(d, 1, i),
          IF type = TypeTEXt THEN Latin1Decode(Slice(d, i + 1, Len(d)))
          ELSE Utf8Decode(Slice(d, j2, Len(d)))>>

RECURSIVE Walk(_, _, _)
\* the chunk walk `while (offset < bytes.length)` from offset with mapping md
Walk(b, offset, md) ==
    IF ~(offset < Len(b)) THEN md
    ELSE LET length == ChunkLength(b, offset)
             type == ChunkType(b, offset + 4)
             e == TextEntry(type, Slice(b, offset + 8, offset + 8 + length))
             md1 == IF type = TypeTEXt \/ type = TypeITXt
                    THEN ObjSet(md, e[1], e[2]) ELSE md
         IN  IF type = TypeIEND THEN md1
             ELSE Walk(b, offset + 8 + length + 4, md1)

\* extractPngMetadata on the bytes b of the blob
ExtractPngMetadata(b) ==
    IF At(b, 0) # 137 \/ At(b, 1) # 80 \/ At(b, 2) # 78 \/ At(b, 3) # 71
    THEN NoneFound("jpeg")
    ELSE LET md == Walk(b, 8, <<>>)
         IN  [format |-> "png", none |-> Len(md) = 0, metadata |-> md]

(* -------------------------- injectPngMetadata --------------------------- *)
\* (mutant of IdatOffset: no scan, the chunks go right after the signature)
IdatOffsetNoScan(b, idatOffset) == idatOffset

\* createTextChunk(keyword, text)
CreateTextChunk(keyword, text) ==
    LET chunkData == Utf8Encode(keyword) \o <<0>> \o Utf8Encode(text)
    IN  U32BE(Len(chunkData)) \o TypeTEXt \o chunkData
        \o CalculateCRC(TypeTEXt \o chunkData)

RECURSIVE IdatOffset(_, _)
\* the scan for the first IDAT chunk from idatOffset
IdatOffset(b, idatOffset) ==
    IF ~(idatOffset < Len(b)) THEN idatOffset
    ELSE IF ChunkType(b, idatOffset + 4) = TypeIDAT THEN idatOffset
    ELSE IdatOffset(b, idatOffset + 4 + 4 + ChunkLength(b, idatOffset) + 4)

RECURSIVE TextChunks(_, _)
\* the chunks of the entries of m from the n-th on, in Object.entries order
TextChunks(m, n) ==
    IF n > Len(m) THEN <<>>
    ELSE CreateTextChunk(m[n][1], m[n][2]) \o TextChunks(m, n + 1)

\* injectPngMetadata on the bytes b with mapping m. An offset outside the
\* buffer makes newBytes.set throw a RangeError; the catch returns the blob
\* it was given.
InjectPngMetadata(b, m) ==
    IF Len(m) = 0 THEN b
    ELSE LET idatOffset == IdatOffset(b, 8)
         IN  IF idatOffset < 0 \/ idatOffset > Len(b) THEN b
             ELSE Slice(b, 0, idatOffset) \o TextChunks(m, 1)
                  \o Slice(b, idatOffset, Len(b))

\* (mutant of InjectPngMetadataCall: an absent or empty mapping is written
\* as the one entry "K" -> "A")
InjectPngMetadataCallStamped(b, absent, m) ==
    InjectPngMetadata(b, IF absent \/ Len(m) = 0 THEN <<<<<<75>>, <<65>>>>>> ELSE m)

\* injectPngMetadata(pngBlob, metadata) where metadata may be null: `!metadata`
\* returns the blob it was given before anything is read
InjectPngMetadataCall(b, absent, m) ==
    IF absent THEN b ELSE InjectPngMetadata(b, m)

(* ------------------------------ inputs ---------------------------------- *)
\* a well-formed chunk
Chunk(type, data) == U32BE(Len(data)) \o type \o data \o CalculateCRC(type \o data)

\* what canvas.toBlob(_, 'image/png') gives: IHDR, IDAT, IEND
PlainPng ==
    PngSignature \o Chunk(TypeIHDR, <<1>>) \o Chunk(TypeIDAT, <<2>>) \o Chunk(TypeIEND, <<>>)
\* a PNG that carries a tEXt chunk "S" -> "A" of its own
TextPng ==
    PngSignature \o Chunk(TypeIHDR, <<1>>) \o Chunk(TypeTEXt, <<83, 0, 65>>)
        \o Chunk(TypeIDAT, <<2>>) \o Chunk(TypeIEND, <<>>)
\* a PNG that carries an iTXt chunk "T" -> "é" of its own
ItxtPng ==
    PngSignature \o Chunk(TypeIHDR, <<1>>)
        \o Chunk(TypeITXt, <<84, 0, 0, 0, 0, 0, 195, 169>>)
        \o Chunk(TypeIDAT, <<2>>) \o Chunk(TypeIEND, <<>>)
\* a PNG without image data
NoIdatPng == PngSignature \o Chunk(TypeIHDR, <<1>>) \o Chunk(TypeIEND, <<>>)


\* the chunks of a PNG whose image data is split in two IDAT chunks, with a
\* tEXt chunk "S" -> "A" between IDAT and IEND
TwoIdatChunks ==
    <<Chunk(TypeIHDR, <<1>>), Chunk(TypeIDAT, <<2>>), Chunk(TypeIDAT, <<3>>),
      Chunk(TypeTEXt, <<83, 0, 65>>), Chunk(TypeIEND, <<>>)>>

RECURSIVE Concat(_)
\* the sequences of the list cl one after the other
Concat(cl) == IF cl = <<>> THEN <<>> ELSE Head(cl) \o Concat(Tail(cl))

\* the bytes of the PNG file with the chunks cl
PngOf(cl) == PngSignature \o Concat(cl)

TwoIdatPng == PngOf(TwoIdatChunks)

InputPngs == {PlainPng, TextPng, ItxtPng, NoIdatPng, TwoIdatPng}

\* the first bytes of a JPEG file
JpegHead == <<255, 216, 255, 224>>
\* only the first four bytes of the PNG signature
ShortSignature == <<137, 80, 78, 71>>
\* a PNG with a tEXt chunk whose signature lost its last byte's value (8th
\* byte 0 instead of 10)
BadSignaturePng ==
    <<137, 80, 78, 71, 13, 10, 26, 0>> \o Chunk(TypeIHDR, <<1>>)
        \o Chunk(TypeTEXt, <<83, 0, 65>>) \o Chunk(TypeIDAT, <<2>>) \o Chunk(TypeIEND, <<>>)

\* buffers that do not start with the eight bytes of the PNG signature
OtherBuffers == {<<>>, JpegHead, ShortSignature, BadSignaturePng}


\* PNGs with text chunks to read, as lists of chunks: a text byte 0x80; the
\* keyword "__proto__"; a tEXt chunk after IEND; a tEXt chunk without a zero
\* byte; a text that holds a zero byte
TextChunkLists ==
    { <<Chunk(TypeIHDR, <<1>>), Chunk(TypeTEXt, <<75, 0, 128>>),
        Chunk(TypeIDAT, <<2>>), Chunk(TypeIEND, <<>>)>>,
      <<Chunk(TypeIHDR, <<1>>), Chunk(TypeTEXt, ProtoKey \o <<0, 65>>),
        Chunk(TypeIDAT, <<2>>), Chunk(TypeIEND, <<>>)>>,
      <<Chunk(TypeIHDR, <<1>>), Chunk(TypeIDAT, <<2>>), Chunk(TypeIEND, <<>>),
        Chunk(TypeTEXt, <<75, 0, 65>>)>>,
      <<Chunk(TypeIHDR, <<1>>), Chunk(TypeTEXt, <<75, 65>>),
        Chunk(TypeIDAT, <<2>>), Chunk(TypeIEND, <<>>)>>,
      <<Chunk(TypeIHDR, <<1>>), Chunk(TypeTEXt, <<75, 0, 65, 0, 66>>),
        Chunk(TypeIDAT, <<2>>), Chunk(TypeIEND, <<>>)>> }

\* PNGs with two tEXt chunks: "L" -> "A" then "K" -> "B", and "2" -> "A" then
\* "1" -> "B"
OrderChunkLists ==
    { <<Chunk(TypeIHDR, <<1>>), Chunk(TypeTEXt, <<76, 0, 65>>),
        Chunk(TypeTEXt, <<75, 0, 66>>), Chunk(TypeIDAT, <<2>>), Chunk(TypeIEND, <<>>)>>,
      <<Chunk(TypeIHDR, <<1>>), Chunk(TypeTEXt, <<50, 0, 65>>),
        Chunk(TypeTEXt, <<49, 0, 66>>), Chunk(TypeIDAT, <<2>>), Chunk(TypeIEND, <<>>)>> }

TextBuffers == {PngOf(cl) : cl \in TextChunkLists \cup OrderChunkLists}

InputBuffers == InputPngs \cup OtherBuffers \cup TextBuffers

\* "K", "L"
Keywords == {<<75>>, <<76>>}
\* "A", "é", "€"
TextChars == {65, 233, 8364}
Texts == UNION {[1..n -> TextChars] : n \in 0..MaxTextLen}
InputMappings ==
    UNION {{m \in [1..n -> Keywords \X Texts] :
               \A i, j \in 1..n : i # j => m[i][1] # m[j][1]} : n \in 0..MaxEntries}

(* --------------------------- specification ------------------------------ *)
CodecInit ==
    /\ PipelineInit
    /\ pngBlob \in InputBuffers
    /\ \/ metadataAbsent = FALSE /\ metadata \in InputMappings
       \/ metadataAbsent = TRUE /\ metadata = <<>>
    /\ blobWithMetadata = <<>>
    /\ extracted = NoneFound("jpeg")
    /\ step = "input"
    /\ walkBytes = <<>>
    /\ walkOffset = 0
    /\ walked = <<>>
    /\ walkSt = "idle"
    /\ exifInj = NoExifCall
    /\ exifRead = NoExifRead
    /\ NoScratch

\* const blobWithMetadata = await injectPngMetadata(blob, getOriginalPngMetadata())
Inject ==
    /\ step = "input"
    /\ blobWithMetadata' = InjectPngMetadataCall(pngBlob, metadataAbsent, metadata)
    /\ step' = "injected"
    /\ UNCHANGED <<scratchVars, exifInj, exifRead, pngBlob, metadata, metadataAbsent, extracted, walkVars>>
    /\ UNCHANGED pipeVars

\* extractPngMetadata of the blob that was written
Extract ==
    /\ step = "injected"
    /\ extracted' = ExtractPngMetadata(blobWithMetadata)
    /\ step' = "extracted"
    /\ UNCHANGED <<scratchVars, exifInj, exifRead, pngBlob, metadata, metadataAbsent, blobWithMetadata, walkVars>>
    /\ UNCHANGED pipeVars

\* extractPngMetadata(sourceBlob) on the input itself, as setSrc calls it
ExtractSource ==
    /\ step = "input"
    /\ extracted' = ExtractPngMetadata(pngBlob)
    /\ step' = "read"
    /\ UNCHANGED <<scratchVars, exifInj, exifRead, pngBlob, metadata, metadataAbsent, blobWithMetadata, walkVars>>
    /\ UNCHANGED pipeVars

\* what the pipeline does with the result of extractPngMetadata(sourceBlob):
\* injectPngMetadata(blob, getOriginalPngMetadata()) on the PNG that
\* canvas.toBlob gave
Reinject ==
    /\ step = "read"
    /\ blobWithMetadata' = InjectPngMetadataCall(PlainPng, extracted.none, extracted.metadata)
    /\ step' = "rewritten"
    /\ UNCHANGED <<scratchVars, exifInj, exifRead, pngBlob, metadata, metadataAbsent, extracted, walkVars>>
    /\ UNCHANGED pipeVars

CodecNext == Inject \/ Extract \/ ExtractSource \/ Reinject

CodecSpec == CodecInit /\ [][CodecNext]_vars

(* ------------------------ properties of the codec ----------------------- *)
\* a mapping as the set of its entries
Entries(m) == {m[n] : n \in 1..Len(m)}

IsAscii(s) == \A n \in 1..Len(s) : s[n] < 128

\* the input has image data and no text chunk of its own
FreshPng(b) ==
    /\ Slice(b, 0, 8) = PngSignature
    /\ IdatOffset(b, 8) < Len(b)
    /\ ExtractPngMetadata(b).none

\* The round trip of entries whose keywords and texts are ASCII, written into
\* a PNG with image data and no text of its own, gives the entries back.
AsciiRoundTrip ==
    ( /\ step = "extracted" /\ FreshPng(pngBlob) /\ Len(metadata) > 0
      /\ \A n \in 1..Len(metadata) : IsAscii(metadata[n][1]) /\ IsAscii(metadata[n][2]) )
    => ~extracted.none /\ Entries(extracted.metadata) = Entries(metadata)

\* C10: for a PNG buffer with image data and no text chunk of its own, and a
\* non-empty keyword -> text mapping, extractPngMetadata of the output of
\* injectPngMetadata returns a mapping equal to the one injected.
C10_RoundTrip ==
    (step = "extracted" /\ FreshPng(pngBlob) /\ Len(metadata) > 0)
    => ~extracted.none /\ Entries(extracted.metadata) = Entries(metadata)

(* ------------------- C11: layout and CRC of a tEXt chunk ---------------- *)
\* The standard CRC-32 (ISO-HDLC, as in the PNG specification) in its other
\* formulation: polynomial 0x04C11DB7 with the most significant bit first,
\* every input byte and the result bit-reflected, initial value and final
\* XOR 0xFFFFFFFF.
RECURSIVE ReflectBits(_, _)
\* the n low bits of x in reverse order
ReflectBits(x, n) ==
    IF n = 0 THEN 0
    ELSE (x % 2) * (2 ^ (n - 1)) + ReflectBits(x \div 2, n - 1)

Reflect32(w) ==
    <<ReflectBits(w[4], 8), ReflectBits(w[3], 8), ReflectBits(w[2], 8), ReflectBits(w[1], 8)>>

\* w << 1 on 32 bits
Shl1(w) ==
    <<(w[1] % 128) * 2 + (w[2] \div 128), (w[2] % 128) * 2 + (w[3] \div 128),
      (w[3] % 128) * 2 + (w[4] \div 128), (w[4] % 128) * 2>>

StdPolynomial == <<4, 193, 29, 183>>

StdRound[w \in Words] ==
    IF w[1] >= 128 THEN Xor32(Shl1(w), StdPolynomial) ELSE Shl1(w)

StdByte[w \in Words, x \in Bytes] ==
    LET w0 == Xor32(w, <<ReflectBits(x, 8), 0, 0, 0>>)
    IN  StdRound[StdRound[StdRound[StdRound[StdRound[StdRound[StdRound[StdRound[w0]]]]]]]]

RECURSIVE StdFold(_, _, _)
StdFold(w, data, i) ==
    IF i > Len(data) THEN w ELSE StdFold(StdByte[w, data[i]], data, i + 1)

\* the standard CRC-32 of data, as four bytes, most significant first
StdCrc32(data) == Xor32(Reflect32(StdFold(AllOnes, data, 1)), AllOnes)

\* the unsigned value of the four bytes at offset off, most significant first
\* (for values below 2^31)
U32At(b, off) ==
    At(b, off) * 16777216 + At(b, off + 1) * 65536 + At(b, off + 2) * 256 + At(b, off + 3)

\* The chunk at offset off of buffer b is the tEXt chunk of entry e: length
\* field = length of keyword, zero byte and text in UTF-8, type tEXt, that
\* data, and the standard CRC-32 of type and data.
IsTextChunkOf(b, off, e) ==
    LET data == Utf8Encode(e[1]) \o <<0>> \o Utf8Encode(e[2])
        len == U32At(b, off)
    IN  /\ len = Len(data)
        /\ ChunkType(b, off + 4) = TypeTEXt
        /\ Slice(b, off + 8, off + 8 + len) = data
        /\ Slice(b, off + 8 + len, off + 12 + len) = StdCrc32(TypeTEXt \o data)

RECURSIVE ChunksFrom(_, _, _, _)
\* the chunks of the entries of m from the n-th on lie in b from offset off
ChunksFrom(b, off, m, n) ==
    IF n > Len(m) THEN TRUE
    ELSE /\ IsTextChunkOf(b, off, m[n])
         /\ ChunksFrom(b, off + 12 + U32At(b, off), m, n + 1)

\* the input of the codec has a first IDAT chunk inside the buffer
HasIdat(b) == IdatOffset(b, 8) < Len(b)

\* C11: every tEXt chunk that injectPngMetadata wrote has a big-endian length
\* field equal to its data length and ends with the big-endian standard
\* CRC-32 of its type and data bytes.
C11_ChunkLengthAndCrc ==
    (step \in {"injected", "extracted"} /\ Len(metadata) > 0 /\ HasIdat(pngBlob))
    => ChunksFrom(blobWithMetadata, IdatOffset(pngBlob, 8), metadata, 1)

\* C11 witness: two chunks were written, one with a text outside ASCII.
C11_Witness ==
    /\ step = "injected" /\ HasIdat(pngBlob) /\ Len(metadata) = 2
    /\ \E n \in 1..2 : ~IsAscii(metadata[n][2])
    /\ Len(blobWithMetadata) > Len(pngBlob)

(* ---------------------- C12: format detection --------------------------- *)
\* C12: for a buffer whose first eight bytes are not the PNG signature
\* (shorter buffers included), extractPngMetadata returns none and records
\* the format jpeg.
C12_NonSignatureIsJpeg ==
    (step = "read" /\ Slice(pngBlob, 0, 8) # PngSignature)
    => extracted.none /\ extracted.format = "jpeg"

(* ------------------- C13: where the new chunks are put ------------------ *)
\* the input PNGs with image data, as lists of chunks
InputChunkLists ==
    { <<Chunk(TypeIHDR, <<1>>), Chunk(TypeIDAT, <<2>>), Chunk(TypeIEND, <<>>)>>,
      <<Chunk(TypeIHDR, <<1>>), Chunk(TypeTEXt, <<83, 0, 65>>),
        Chunk(TypeIDAT, <<2>>), Chunk(TypeIEND, <<>>)>>,
      <<Chunk(TypeIHDR, <<1>>), Chunk(TypeITXt, <<84, 0, 0, 0, 0, 0, 195, 169>>),
        Chunk(TypeIDAT, <<2>>), Chunk(TypeIEND, <<>>)>>,
      TwoIdatChunks }

\* the type of a chunk given as its bytes
TypeOf(c) == SubSeq(c, 5, 8)

\* the index in cl of the first chunk of type IDAT
FirstIdat(cl) ==
    CHOOSE k \in 1..Len(cl) :
        TypeOf(cl[k]) = TypeIDAT /\ \A j \in 1..(k - 1) : TypeOf(cl[j]) # TypeIDAT

\* C13: for an input PNG with chunks cl and a non-empty mapping, the output
\* of injectPngMetadata is the signature, the chunks of cl before its first
\* IDAT, the new tEXt chunks, and the chunks of cl from the first IDAT on (so
\* every original chunk is kept in place and order, and IEND stays last).
C13_InsertBeforeFirstIdat ==
    \A cl \in InputChunkLists :
        (step \in {"injected", "extracted"} /\ pngBlob = PngOf(cl) /\ Len(metadata) > 0)
        => LET k == FirstIdat(cl)
               new == TextChunks(metadata, 1)
           IN  /\ blobWithMetadata =
                      PngSignature \o Concat(SubSeq(cl, 1, k - 1)) \o new
                          \o Concat(SubSeq(cl, k, Len(cl)))
               /\ Len(new) >= 12
               /\ Slice(blobWithMetadata, Len(blobWithMetadata) - 12, Len(blobWithMetadata))
                      = Chunk(TypeIEND, <<>>)

\* C13 witness: two chunks were written into the PNG with two IDAT chunks.
C13_Witness ==
    /\ step = "injected" /\ pngBlob = TwoIdatPng /\ Len(metadata) = 2
    /\ Len(blobWithMetadata) > Len(pngBlob) + 24

(* =========================== Part III ===================================
   The chunk walk of extractPngMetadata, one loop iteration at a time, on
   buffers whose length fields hold anything.
   ======================================================================== *)
\* a chunk-like run of bytes: length field l, type t, three data bytes
\* ("K", 0, "A") and four bytes where the CRC would be (it is never read)
RawChunk(l, t) == l \o t \o <<75, 0, 65>> \o <<0, 0, 0, 0>>

\* length fields: 0, 3 (the true length), 0x40000000, -1 and -12
LengthFields ==
    {<<0, 0, 0, 0>>, <<0, 0, 0, 3>>, <<64, 0, 0, 0>>,
     <<255, 255, 255, 255>>, <<255, 255, 255, 244>>}

RawChunks == {RawChunk(l, t) : l \in LengthFields, t \in {TypeTEXt, TypeIDAT, TypeIEND}}

\* a signature and two chunk-like runs, and the buffers of Part II
WalkBuffers ==
    InputBuffers \cup {PngSignature \o c1 \o c2 : c1, c2 \in RawChunks}

WalkInit ==
    /\ PipelineInit
    /\ pngBlob = <<>>
    /\ metadata = <<>>
    /\ metadataAbsent = FALSE
    /\ blobWithMetadata = <<>>
    /\ extracted = NoneFound("jpeg")
    /\ step = "idle"
    /\ walkBytes \in WalkBuffers
    /\ walkOffset = 0
    /\ walked = <<>>
    /\ walkSt = "start"
    /\ exifInj = NoExifCall
    /\ exifRead = NoExifRead
    /\ NoScratch

\* the signature test, and `let offset = 8`
WalkOpen ==
    /\ walkSt = "start"
    /\ IF At(walkBytes, 0) # 137 \/ At(walkBytes, 1) # 80
          \/ At(walkBytes, 2) # 78 \/ At(walkBytes, 3) # 71
       THEN /\ extracted' = NoneFound("jpeg")
            /\ walkSt' = "done"
            /\ UNCHANGED walkOffset
       ELSE /\ walkOffset' = 8
            /\ walkSt' = "test"
            /\ UNCHANGED extracted
    /\ UNCHANGED <<scratchVars, exifInj, exifRead, pngBlob, metadata, metadataAbsent, blobWithMetadata, step, walkBytes, walked>>
    /\ UNCHANGED pipeVars

\* the loop condition `while (offset < bytes.length)`
WalkTest ==
    /\ walkSt = "test"
    /\ walkSt' = IF walkOffset < Len(walkBytes) THEN "body" ELSE "ret"
    /\ UNCHANGED <<scratchVars, exifInj, exifRead, pngBlob, metadata, metadataAbsent, blobWithMetadata, extracted, step,
                   walkBytes, walkOffset, walked>>
    /\ UNCHANGED pipeVars

\* one iteration of the loop body
WalkBody ==
    /\ walkSt = "body"
    /\ LET length == ChunkLength(walkBytes, walkOffset)
           type == ChunkType(walkBytes, walkOffset + 4)
           e == TextEntry(type, Slice(walkBytes, walkOffset + 8, walkOffset + 8 + length))
       IN  /\ walked' = IF type = TypeTEXt \/ type = TypeITXt
                        THEN ObjSet(walked, e[1], e[2]) ELSE walked
           /\ walkOffset' = walkOffset + 8 + length + 4
           /\ walkSt' = IF type = TypeIEND THEN "ret" ELSE "test"
    /\ UNCHANGED <<scratchVars, exifInj, exifRead, pngBlob, metadata, metadataAbsent, blobWithMetadata, extracted, step, walkBytes>>
    /\ UNCHANGED pipeVars

\* after the loop: the mapping, or null when it has no key
WalkReturn ==
    /\ walkSt = "ret"
    /\ extracted' = [format |-> "png", none |-> Len(walked) = 0, metadata |-> walked]
    /\ walkSt' = "done"
    /\ UNCHANGED <<scratchVars, exifInj, exifRead, pngBlob, metadata, metadataAbsent, blobWithMetadata, step,
                   walkBytes, walkOffset, walked>>
    /\ UNCHANGED pipeVars

WalkNext == WalkOpen \/ WalkTest \/ WalkBody \/ WalkReturn

\* the function keeps running until it returns: its steps are taken as long
\* as one is possible
WalkSpec == WalkInit /\ [][WalkNext]_vars /\ WF_vars(WalkNext)

\* C14: on every input buffer the chunk walk of extractPngMetadata comes to
\* an end (the function returns).
C14_WalkTerminates == <>(walkSt = "done")

(* ---------------- C15: nothing to write, nothing changed ---------------- *)
\* C15: when the mapping given to injectPngMetadata is absent (null) or has
\* no entry, what it returns is byte for byte the blob it was given.
C15_NoMappingSameBlob ==
    (step \in {"injected", "extracted"} /\ (metadataAbsent \/ Len(metadata) = 0))
    => blobWithMetadata = pngBlob

\* C15 witness: injectPngMetadata has returned for a PNG with image data and
\* a null mapping.
C15_Witness ==
    /\ step = "injected" /\ metadataAbsent /\ HasIdat(pngBlob)
    /\ Slice(pngBlob, 0, 8) = PngSignature

\* C15 witness, second case: the same with a mapping that has no entry.
C15_WitnessEmpty ==
    /\ step = "injected" /\ ~metadataAbsent /\ Len(metadata) = 0
    /\ pngBlob = TwoIdatPng /\ blobWithMetadata = pngBlob

(* =========================== Part IV ====================================
   injectExifToDataUrl(dataUrl, exifData). The data URL is opaque; piexif is
   the external encoder: piexif.dump / piexif.insert either give a new data
   URL or throw.
   ======================================================================== *)
\* tag names of the model: two of the 0th IFD, one of the Exif IFD, one of
\* the GPS IFD, and one that the function does not copy
ExifTagNames == {"Make", "Model", "ISO", "GPSLatitude", "Orientation"}

ZerothTags == {"Make", "Model", "Software", "DateTime", "Artist", "Copyright"}
ExifIfdTags == {"DateTimeOriginal", "DateTimeDigitized", "ExposureTime", "FNumber",
                "ISO", "FocalLength", "LensModel"}
GpsTags == {"GPSLatitude", "GPSLongitude"}

\* exifObj after the `if (exifData.X) exifObj[..][..] = exifData.X` lines,
\* for the tag names tags of which those in falsy have a falsy value: a tag
\* is copied when its value is truthy
BuildExifObj(tags, falsy) ==
    LET copied == tags \ falsy
    IN  [zeroth |-> copied \cap ZerothTags, exif |-> copied \cap ExifIfdTags,
         gps |-> copied \cap GpsTags]

ExifInit ==
    /\ PipelineInit
    /\ pngBlob = <<>>
    /\ metadata = <<>>
    /\ metadataAbsent = FALSE
    /\ blobWithMetadata = <<>>
    /\ extracted = NoneFound("jpeg")
    /\ step = "idle"
    /\ walkBytes = <<>>
    /\ walkOffset = 0
    /\ walked = <<>>
    /\ walkSt = "idle"
    /\ \E absent \in BOOLEAN, tags \in SUBSET ExifTagNames, lib \in BOOLEAN :
           /\ absent => tags = {}
           /\ \E falsy \in SUBSET tags :
                  exifInj = [NoExifCall EXCEPT !.st = "input", !.absent = absent,
                                               !.exifData = tags, !.falsy = falsy,
                                               !.piexif = lib]
    /\ exifRead = NoExifRead
    /\ NoScratch

\* injectExifToDataUrl; throws: piexif.dump or piexif.insert throws
InjectExifToDataUrl(throws) ==
    /\ exifInj.st = "input"
    /\ IF exifInj.absent \/ ~exifInj.piexif
       THEN exifInj' = [exifInj EXCEPT !.st = "returned", !.result = "dataUrl"]
       ELSE exifInj' = [exifInj EXCEPT !.st = "returned", !.dumpCalls = 1,
                            !.exifObj = BuildExifObj(exifInj.exifData, exifInj.falsy),
                            !.result = IF throws THEN "dataUrl" ELSE "newDataUrl"]
    /\ UNCHANGED <<pngBlob, metadata, metadataAbsent, blobWithMetadata, extracted, step,
                   walkVars, exifRead, scratchVars>>
    /\ UNCHANGED pipeVars

ExifNext == \E throws \in BOOLEAN : InjectExifToDataUrl(throws)

ExifSpec == ExifInit /\ [][ExifNext]_vars

\* C16: when piexif is not available or the tag mapping has no entry,
\* injectExifToDataUrl returns the data URL it was given and has not called
\* the encoder.
C16_NoOpWithoutEncoder ==
    (exifInj.st = "returned" /\ (~exifInj.piexif \/ exifInj.absent \/ exifInj.exifData = {}))
    => exifInj.result = "dataUrl" /\ exifInj.dumpCalls = 0

(* ------------- C17: an onload handler runs at most once ----------------- *)
\* C17: the body of the onload handler bound by a load request is entered at
\* most once, whatever load events the display image gets, also while the
\* handler is suspended at `await extractExifData(img)` and when the same
\* img element is used again by a later load or transform output.
C17_HandlerRunsAtMostOnce == \A L \in Loads : load[L].runs <= 1

\* C17 witness: the handler of a load is suspended at the EXIF extraction,
\* and meanwhile the output of a transform was assigned to the same img
\* element and its load event was delivered.
C17_Witness ==
    \E L \in Loads, T \in Xforms :
        /\ load[L].runs = 1 /\ load[L].pend = 1
        /\ xf[T].st = "done" /\ xf[T].out # 0
        /\ cur = load[L].elem /\ elems[cur].src = xf[T].out
        /\ ~elems[cur].loading

(* ------------- C18: extraction failures stay out of sight --------------- *)
\* C18: however an extraction of a load ends, failures included (the PNG
\* extraction fails to read the bytes; the EXIF reader is missing or
\* throws), no message is shown to the user and the load goes on: the end of
\* the PNG extraction stores its result (none on failure) and assigns the
\* image, the end of the EXIF extraction stores its result (none on failure)
\* and ends the load (display, or dispatch of the auto transform).
C18_ExtractionFailureInvisible ==
    [][\A L \in Loads :
          /\ (load[L].st = "png" /\ load'[L].st # "png")
                => alerts' = alerts /\ load'[L].st = "armed" /\ load'[L].pngSet
          /\ (load[L].pend > 0 /\ load'[L].pend < load[L].pend)
                => alerts' = alerts /\ load'[L].st = "fin" /\ load'[L].exifSet]_vars

(* --------- C19: a failed injection still delivers the output ------------ *)
\* C19: when the injection of a transform ends (injectPngMetadata resolves,
\* or the fetch of the data URL that injectExifToDataUrl returned), the
\* output is displayed: as the src of the display image, or as the scratch
\* view; and when the encode/insert step had thrown, what is displayed is the
\* blob the injection was given, with no metadata in it.
C19_FailedInjectionStillDisplayed ==
    [][\A T \in Xforms :
          (xf[T].st \in {"inject", "fetch"} /\ xf'[T].st # xf[T].st)
          => /\ xf'[T].st = "done"
             /\ xf'[T].out = nUrls' /\ nUrls' = nUrls + 1
             /\ IF xf[T].kind = "decrypt" /\ xf[T].mode # "direct"
                THEN scratch' /\ urls'[xf'[T].out].kind = "scratch"
                ELSE cur' # 0 /\ elems'[cur'].src = xf'[T].out /\ elems'[cur'].shown
             /\ ~xf'[T].injected
                => urls'[xf'[T].out].png = NoMeta /\ urls'[xf'[T].out].exif = NoMeta]_vars

\* C19 witness: injectPngMetadata had metadata to write and failed, and the
\* output of that transform is the src of the display image.
C19_Witness ==
    \E T \in Xforms :
        /\ xf[T].st = "done" /\ ~xf[T].injected /\ xf[T].out # 0
        /\ urls[xf[T].out].fmt = "png" /\ urls[xf[T].out].png = NoMeta
        /\ cur # 0 /\ elems[cur].src = xf[T].out

C21_HandlerBoundBeforeSrc ==
    [][/\ \A g \in Elems, L \in Loads :
             (load'[L].url # 0 /\ elems'[g].src = load'[L].url
                 /\ elems[g].src # elems'[g].src)
             => elems'[g].onload =
                    IF load'[L].mode = "extract" THEN ExtractHandler(L)
                    ELSE IF load'[L].mode = "auto" THEN AutoHandler(L, load'[L].auto)
                    ELSE NoHandler
       /\ \A L \in Loads :
             load'[L].runs > load[L].runs
             => \E g \in Elems :
                    /\ elems[g].loading /\ ~elems'[g].loading
                    /\ elems[g].onload.load = L
                    /\ elems[g].src = load[L].url]_vars

\* C21 witness: the handler of the second load was entered, on the element
\* that the first load had bound its own handler and URL to.
C21_Witness ==
    /\ nLoads = 2
    /\ load[2].runs = 1 /\ load[2].hurl = load[2].url
    /\ load[1].st = "armed" /\ urls[load[1].url].bound
    /\ load[1].runs = 0

(* ------- C22: PNG text before the decode, EXIF in the callback ---------- *)
\* C22: for a load through the extract branch, (a) in the step that assigns
\* its URL to img.src (the start of the decode) the result of its PNG
\* extraction is recorded and is what the store holds at the end of the
\* step, and no EXIF extraction of that load has begun; (b) the EXIF
\* extraction of the load begins only in a step that is the load event of
\* the element showing that URL, after the PNG result was stored.
C22_PngBeforeDecodeExifInCallback ==
    [][\A L \in Loads : load[L].mode = "extract" =>
          /\ (\E g \in Elems : elems'[g].src = load[L].url /\ elems[g].src # load[L].url)
                => /\ load'[L].pngSet
                   /\ originalPngMetadata' = load'[L].pngGot
                   /\ load'[L].runs = 0 /\ load'[L].pend = 0 /\ ~load'[L].exifSet
          /\ load'[L].pend > load[L].pend
                => /\ load[L].pngSet
                   /\ \E g \in Elems : /\ elems[g].loading /\ ~elems'[g].loading
                                        /\ elems[g].src = load[L].url]_vars

\* C22 witness: the EXIF extraction of a load of a PNG file with text entries
\* is pending, its PNG result having been recorded.
C22_Witness ==
    \E L \in Loads :
        /\ load[L].mode = "extract" /\ load[L].pend = 1
        /\ load[L].pngSet /\ load[L].pngGot # NoMeta
        /\ ~load[L].exifSet

(* ------------- C23: the order of the events of a load ------------------- *)
\* C23 as the specification states it: for a load through the extract
\* branch (the one that ends with auto-action "encrypt" included) the order
\* is decode, PNG-text extraction, EXIF extraction, transform: when the
\* PNG-text extraction ends the image was already given to the decoder, the
\* EXIF extraction follows the PNG-text extraction, and the transform is
\* dispatched after the EXIF result.
C23_DecodeThenPngThenExifThenTransform ==
    [][\A L \in Loads : load'[L].mode = "extract" =>
          /\ (~load[L].pngSet /\ load'[L].pngSet) => urls[load[L].url].bound
          /\ (load'[L].pend > 0 \/ load'[L].exifSet) => load'[L].pngSet
          /\ \A T \in Xforms :
                (xf'[T].st # "unused" /\ xf'[T].by = L) => load'[L].exifSet]_vars

\* C23, amended: the order is PNG-text extraction, decode, EXIF extraction,
\* transform. When the PNG-text extraction of the load ends its URL was not
\* yet assigned to img.src; the URL is assigned only with the PNG result
\* recorded; the handler is entered only for the assigned URL; the EXIF
\* extraction begins only in the handler; a transform is dispatched by the
\* load only after the EXIF result was stored, and a load that read
\* auto-action "encrypt" has dispatched one encrypt.
C23_PngThenDecodeThenExifThenTransform ==
    [][\A L \in Loads : load'[L].mode = "extract" =>
          /\ (~load[L].pngSet /\ load'[L].pngSet)
                => ~urls[load[L].url].bound /\ load[L].runs = 0
          /\ urls'[load'[L].url].bound => load'[L].pngSet
          /\ load'[L].runs > 0 => urls'[load'[L].url].bound
          /\ (load'[L].pend > 0 \/ load'[L].exifSet) => load'[L].runs > 0
          /\ \A T \in Xforms :
                (xf'[T].st # "unused" /\ xf'[T].by = L) => load'[L].exifSet
          /\ (load'[L].st = "fin" /\ load'[L].auto = "encrypt")
                => \E T \in Xforms : xf'[T].by = L /\ xf'[T].kind = "encrypt"]_vars

\* C23 witness: the encrypt transform dispatched by a load that read
\* auto-action "encrypt" is running, all events of the order having happened.
C23_Witness ==
    \E L \in Loads, T \in Xforms :
        /\ load[L].mode = "extract" /\ load[L].st = "fin" /\ load[L].auto = "encrypt"
        /\ load[L].pngSet /\ load[L].exifSet /\ load[L].runs = 1
        /\ xf[T].by = L /\ xf[T].kind = "encrypt" /\ xf[T].st = "run"

(* ------ C24: the output carries its own image's format and metadata ----- *)
\* C24: the output of a transform that was requested when one load had been
\* made and the pipeline was Ready, and that read the pixels of that source
\* image, carries no metadata of another image and is not in another image's
\* format, whatever is loaded while the transform is suspended: PNG text in
\* it is the text of that source file, EXIF tags in it are the tags of that
\* source file, and it is a PNG only if that source file is one.
C24_OutputOfItsOwnImage ==
    \A T \in Xforms :
        (xf[T].st = "done" /\ xf[T].ready /\ xf[T].born = 1 /\ xf[T].pix # 0
            /\ urls[xf[T].pix].kind = "src")
        => LET f == load[urls[xf[T].pix].origin].file
               o == urls[xf[T].out]
           IN  /\ o.png # NoMeta => o.png = PngTextOf(f)
               /\ o.exif # NoMeta => o.exif = ExifOf(f)
               /\ o.fmt = "png" => FormatOf(f) = "png"

(* ---------- C25: which loads enter the metadata extraction -------------- *)
\* C25: a load takes the extract branch, and any extraction is run for it,
\* only if its caller asked for preservation and gave the source bytes
\* (asked); for every other load no PNG-text result and no EXIF result is
\* ever recorded and its handler never awaits the EXIF reader; and in a run
\* whose only load is such a load the store stays empty with format "jpeg".
C25_ExtractionOnlyWhenAsked ==
    \A L \in Loads : load[L].st # "unused" =>
        /\ (load[L].mode = "extract" \/ load[L].pngSet \/ load[L].exifSet
               \/ load[L].pend > 0) => load[L].asked
        /\ ~load[L].asked =>
              /\ load[L].mode # "extract"
              /\ ~load[L].pngSet /\ ~load[L].exifSet /\ load[L].pend = 0
              /\ load[L].fmtGot = "unread"
              /\ nLoads = 1 => StoreEmpty /\ originalImageFormat = "jpeg"

\* C25 witness: the output of the transform that the only load, one that did
\* not ask for preservation, dispatched for auto-action "encrypt" is shown.
C25_Witness ==
    /\ nLoads = 1 /\ ~load[1].asked /\ load[1].mode = "auto" /\ load[1].runs = 1
    /\ HasMeta(load[1].file)
    /\ \E T \in Xforms : xf[T].by = 1 /\ xf[T].st = "done"

(* =========================== Part V =====================================
   extractExifData(imgElement). EXIF is the external reader: EXIF.getData,
   when called, calls its callback, throws, or returns without ever calling
   it; EXIF.getAllTags in the callback gives the tags or throws.
   ======================================================================== *)
ReaderKinds == {"missing", "calls", "throws", "silent"}

ReadInit ==
    /\ PipelineInit
    /\ pngBlob = <<>>
    /\ metadata = <<>>
    /\ metadataAbsent = FALSE
    /\ blobWithMetadata = <<>>
    /\ extracted = NoneFound("jpeg")
    /\ step = "idle"
    /\ walkBytes = <<>>
    /\ walkOffset = 0
    /\ walked = <<>>
    /\ walkSt = "idle"
    /\ exifInj = NoExifCall
    /\ NoScratch
    /\ \E r \in ReaderKinds, tags \in SUBSET ExifTagNames, th \in BOOLEAN :
           exifRead = [NoExifRead EXCEPT !.st = "input", !.reader = r,
                                         !.tags = tags, !.tagsThrow = th]

\* resolve(v) / reject on the promise record r: only the first one settles it
Settle(r, how, v) ==
    IF r.promise = "pending"
    THEN [r EXCEPT !.promise = how, !.value = v, !.settles = 1]
    ELSE r

\* extractExifData is called: the executor of the promise runs. Without EXIF
\* it resolves null; else EXIF.getData(imgElement, callback) is called, and
\* what it throws rejects the promise.
ExtractExifData ==
    /\ exifRead.st = "input"
    /\ LET r == [exifRead EXCEPT !.promise = "pending"]
       IN  exifRead' =
              IF r.reader = "missing"
              THEN [Settle(r, "resolved", [none |-> TRUE, tags |-> {}]) EXCEPT !.st = "returned"]
              ELSE IF r.reader = "throws"
              THEN [Settle(r, "rejected", [none |-> TRUE, tags |-> {}]) EXCEPT !.st = "returned"]
              ELSE [r EXCEPT !.st = IF r.reader = "calls" THEN "reading" ELSE "returned"]
    /\ UNCHANGED <<pngBlob, metadata, metadataAbsent, blobWithMetadata, extracted, step,
                   walkVars, exifInj, scratchVars>>
    /\ UNCHANGED pipeVars

\* the callback given to EXIF.getData runs: EXIF.getAllTags(this), resolve
\* with the tags if there is any key, else with null; a throw is caught and
\* resolves null
ReaderCallback ==
    /\ exifRead.st = "reading"
    /\ exifRead' =
          [Settle(exifRead, "resolved",
                  IF exifRead.tagsThrow \/ exifRead.tags = {}
                  THEN [none |-> TRUE, tags |-> {}]
                  ELSE [none |-> FALSE, tags |-> exifRead.tags])
             EXCEPT !.st = "returned"]
    /\ UNCHANGED <<pngBlob, metadata, metadataAbsent, blobWithMetadata, extracted, step,
                   walkVars, exifInj, scratchVars>>
    /\ UNCHANGED pipeVars

ReadNext == ExtractExifData \/ ReaderCallback

ReadSpec == ReadInit /\ [][ReadNext]_vars

\* C26: the promise of extractExifData is never rejected, and once the call
\* and the reader are through it is resolved, once: to none when EXIF is
\* missing, when there is no tag or when reading the tags threw, else to the
\* tags.
C26_ResolvesOnceNeverRejects ==
    /\ exifRead.promise # "rejected"
    /\ exifRead.promise = "resolved" =>
          /\ exifRead.settles = 1
          /\ exifRead.value =
                IF exifRead.reader = "missing" \/ exifRead.tags = {} \/ exifRead.tagsThrow
                THEN [none |-> TRUE, tags |-> {}]
                ELSE [none |-> FALSE, tags |-> exifRead.tags]

(* ------------- C27: what is read from a tEXt chunk ---------------------- *)
\* the data of a chunk given as its bytes
DataOf(c) == SubSeq(c, 9, Len(c) - 4)

\* the chunks of cl up to its first IEND chunk (all of cl if it has none)
MetChunks(cl) ==
    {cl[n] : n \in {n \in 1..Len(cl) : \A j \in 1..(n - 1) : TypeOf(cl[j]) # TypeIEND}}

\* data d split at its first zero byte: the bytes before it and the bytes
\* after it, each byte a character (Latin-1)
SplitAtZero(d) ==
    LET Z == {n \in 1..Len(d) : d[n] = 0}
        k == IF Z = {} THEN Len(d) + 1 ELSE CHOOSE n \in Z : \A j \in Z : n <= j
    IN  <<SubSeq(d, 1, k - 1), SubSeq(d, k + 1, Len(d))>>

\* C27: extractPngMetadata on a PNG with the chunks cl has recorded, for every
\* tEXt chunk up to the first IEND, the entry made of the bytes before the
\* first zero byte of its data (keyword) and the bytes after it (text), and
\* it returns none exactly when there is no tEXt or iTXt chunk up to the
\* first IEND.
C27_TextSplitAtFirstZero ==
    \A cl \in InputChunkLists \cup TextChunkLists :
        (step = "read" /\ pngBlob = PngOf(cl))
        => /\ \A c \in MetChunks(cl) :
                 TypeOf(c) = TypeTEXt => SplitAtZero(DataOf(c)) \in Entries(extracted.metadata)
           /\ extracted.none
                 <=> ~\E c \in MetChunks(cl) : TypeOf(c) \in {TypeTEXt, TypeITXt}

(* ------------- C28: the order of the written chunks --------------------- *)
RECURSIVE TextChunksOf(_)
\* the tEXt chunks of the chunk list cl, in their order
TextChunksOf(cl) ==
    IF cl = <<>> THEN <<>>
    ELSE (IF TypeOf(Head(cl)) = TypeTEXt THEN Head(cl) ELSE <<>>) \o TextChunksOf(Tail(cl))

\* C28: when the entries read from a source PNG with two tEXt chunks (ASCII,
\* different keywords) are written into the PNG of the canvas, the new tEXt
\* chunks stand before IDAT in the order they have in the source.
C28_WrittenInSourceOrder ==
    \A cl \in OrderChunkLists :
        (step = "rewritten" /\ pngBlob = PngOf(cl))
        => blobWithMetadata =
              PngSignature \o Chunk(TypeIHDR, <<1>>) \o TextChunksOf(cl)
                  \o Chunk(TypeIDAT, <<2>>) \o Chunk(TypeIEND, <<>>)

(* ------------- C29: what is given to the encoder ------------------------ *)
\* C29: when injectExifToDataUrl has called the encoder, the exifObj it gave
\* to piexif.dump holds, in each IFD group, exactly the tags of that group's
\* list that are present in the mapping, and nothing else.
C29_ExactlyTheWhitelistedTags ==
    (exifInj.st = "returned" /\ exifInj.dumpCalls = 1)
    => exifInj.exifObj = [zeroth |-> exifInj.exifData \cap ZerothTags,
                          exif |-> exifInj.exifData \cap ExifIfdTags,
                          gps |-> exifInj.exifData \cap GpsTags]

(* ------------- C30: a skipAuto load is inert ---------------------------- *)
\* the URLs displayed by a setSrc call with skipAuto = true: every transform
\* output shown in the display img, and the source of a load in that branch
IsSkipAutoUrl(U, Ld, u) ==
    \/ U[u].kind = "out"
    \/ U[u].kind = "src" /\ Ld[U[u].origin].mode = "direct"

\* C30: a setSrc call with skipAuto = true leaves img.onload unbound when it
\* assigns img.src, whatever the auto-action; the load event of what it
\* displayed dispatches no transform and changes neither the store nor any
\* load; such a load never runs a handler or an extraction and dispatches
\* nothing; and every load dispatches at most one transform.
C30_SkipAutoLoadIsInert ==
    [][ /\ \A g \in Elems :
              /\ elems'[g].src # elems[g].src
              /\ elems'[g].src # 0
              /\ IsSkipAutoUrl(urls', load', elems'[g].src)
              => elems'[g].onload = NoHandler
        /\ \A g \in Elems :
              /\ elems[g].loading /\ ~elems'[g].loading
              /\ elems[g].src # 0 /\ elems'[g].src = elems[g].src
              /\ IsSkipAutoUrl(urls, load, elems[g].src)
              => /\ xf' = xf /\ nXf' = nXf /\ load' = load
                 /\ store' = store
        /\ \A L \in Loads :
              /\ load'[L].mode = "direct"
                 => /\ load'[L].st = "fin" /\ load'[L].runs = 0 /\ load'[L].pend = 0
                    /\ ~load'[L].pngSet /\ ~load'[L].exifSet
                    /\ \A T \in Xforms : xf'[T].st # "unused" => xf'[T].by # L
              /\ Cardinality({T \in Xforms : xf'[T].st # "unused" /\ xf'[T].by = L}) <= 1
      ]_vars

\* the output of the transform that the one load's handler dispatched is
\* displayed and its load event was delivered, and there is still only the
\* one transform request
C30_Witness ==
    /\ \E T \in Xforms :
          /\ xf[T].st = "done" /\ xf[T].by # 0
          /\ cur # 0 /\ elems[cur].src = xf[T].out /\ ~elems[cur].loading
    /\ nXf = 1
    /\ nLoads = 1

\* a load in the skipAuto branch was decoded
C30_WitnessEntry ==
    \E L \in Loads :
        /\ load[L].mode = "direct"
        /\ load[L].elem # 0
        /\ elems[load[L].elem].src = load[L].url
        /\ ~elems[load[L].elem].loading

(* ------------- C31: a later load keeps its handler ---------------------- *)
\* C31: while the source of a load B of the extract branch is being decoded
\* in the display img (B bound its handler and assigned img.src, the load
\* event is still to come), img.onload is B's handler: no continuation of an
\* earlier load has removed it, so the decode completion runs it.
C31_LaterHandlerSurvives ==
    \A B \in Loads :
        /\ load[B].mode = "extract" /\ load[B].st = "armed"
        /\ load[B].elem # 0
        /\ elems[load[B].elem].src = load[B].url
        /\ elems[load[B].elem].loading
        => elems[load[B].elem].onload = ExtractHandler(B)

(* ======================================================================= *)
(*        Part VI: the pipeline when every asynchronous step completes     *)
(* ======================================================================= *)
\* The tasks the event loop owes: the settlement of extractPngMetadata, the
\* load event of a decode, the settlement of extractExifData (resolved), the
\* animation frame, the opaque transform (resolved), the canvas.toBlob
\* callback, the settlement of injectPngMetadata and of the fetch.
Completion ==
    \/ \E L \in Loads, ok \in BOOLEAN : PngResolve(L, ok)
    \/ \E g \in Elems : ImgLoad(g)
    \/ \E L \in Loads, a \in AutoActions : ExifResolve(L, FALSE, a)
    \/ \E T \in Xforms : RafFire(T)
    \/ \E T \in Xforms, inj \in BOOLEAN, m \in DisplayModes : XformResolve(T, TRUE, m, inj)
    \/ \E T \in Xforms : ToBlobCb(T)
    \/ \E T \in Xforms, ok \in BOOLEAN : InjectResolve(T, ok)
    \/ \E T \in Xforms : FetchResolve(T)

\* The user's actions: the UI loads and the two buttons.
UserAction ==
    \/ \E f \in Files, drop \in BOOLEAN : UILoad(f, drop)
    \/ \E k \in {"encrypt", "decrypt"} : ManualTransform(k)

LiveNext == UserAction \/ Completion

\* Every task that stays queued is run; the user is under no obligation.
LiveSpec == Init /\ [][LiveNext]_vars /\ WF_vars(Completion)

\* An image is displayed: the scratch view, or the display img made visible
\* with a source.
Displayed ==
    \/ scratch
    \/ cur # 0 /\ elems[cur].shown /\ elems[cur].src # 0

\* The processing-state indicator of the document is hidden.
IndicatorHidden == cur # 0 => ~elems[cur].proc

\* Every transform request made has displayed its output.
AllDelivered == \A T \in Xforms : xf[T].st \in {"unused", "done"}

\* C32: with every decode, EXIF extraction, transform and re-encode
\* completing, a state is always reached afterwards in which every load has
\* ended its extraction and every transform request has displayed its output
\* (Ready), the processing-state indicator is hidden and an image or the
\* scratch view is displayed.
C32_EveryRequestReachesReady ==
    (nLoads > 0) ~> (Ready /\ AllDelivered /\ IndicatorHidden /\ Displayed)

\* (the display half alone)
C32_DisplayHalf ==
    (nLoads > 0) ~> (AllDelivered /\ IndicatorHidden /\ Displayed)

(* ======================================================================= *)
(*        Part VII: the scratch views and the global scratching flag       *)
(* ======================================================================= *)
\* The scratch view of URL u has its canvas in the document: the container
\* holds a .scratch-container, createScratchDOM emptied the container before
\* it appended this one (so it is the latest), and the canvas was not removed.
CanvasInDocument(u) ==
    /\ scratch
    /\ urls[u].kind = "scratch"
    /\ \A v \in Urls : v > u => urls[v].kind # "scratch"
    /\ u \notin overlay.removed

\* scratchImg.onload of createScratchEffect / createTransparentScratchEffect:
\* the mask is drawn and bindScratchEvents binds the listeners. The img loads
\* whether or not its container is still in the document.
ScratchImgLoad(u) ==
    /\ urls[u].kind = "scratch"
    /\ u \notin overlay.bound
    /\ overlay' = [overlay EXCEPT !.bound = @ \cup {u}]
    /\ UNCHANGED <<isScratchingEffect, timers>>
    /\ UNCHANGED <<pngBlob, metadata, metadataAbsent, blobWithMetadata, extracted, step,
                   walkVars, exifInj, exifRead>>
    /\ UNCHANGED pipeVars

\* autoRemoveOverlay(canvas, 50, shouldRemove): the timers pending after it
AutoRemoveOverlay(u, shouldRemove) ==
    IF shouldRemove THEN timers \cup {u} ELSE timers

\* mousedown / touchstart on the canvas: handleStart sets isDrawing and calls
\* the start callback: setScratchingStatus(true), scratch(x, y), which ends
\* with autoRemoveOverlay. more: this stroke takes the scratched share beyond
\* the threshold (it stays beyond once it is).
ScratchStart(u, more) ==
    /\ u \in overlay.bound
    /\ CanvasInDocument(u)
    /\ LET over == more \/ u \in overlay.over
       IN  /\ overlay' = [overlay EXCEPT !.drawing = @ \cup {u},
                                         !.over = IF over THEN @ \cup {u} ELSE @]
           /\ timers' = AutoRemoveOverlay(u, over)
    /\ isScratchingEffect' = TRUE
    /\ UNCHANGED <<pngBlob, metadata, metadataAbsent, blobWithMetadata, extracted, step,
                   walkVars, exifInj, exifRead>>
    /\ UNCHANGED pipeVars

\* mousemove / touchmove on the canvas: handleMove returns unless isDrawing,
\* else scratchLine, which ends with autoRemoveOverlay.
ScratchMove(u, more) ==
    /\ u \in overlay.drawing
    /\ CanvasInDocument(u)
    /\ LET over == more \/ u \in overlay.over
       IN  /\ overlay' = [overlay EXCEPT !.over = IF over THEN @ \cup {u} ELSE @]
           /\ timers' = AutoRemoveOverlay(u, over)
    /\ UNCHANGED isScratchingEffect
    /\ UNCHANGED <<pngBlob, metadata, metadataAbsent, blobWithMetadata, extracted, step,
                   walkVars, exifInj, exifRead>>
    /\ UNCHANGED pipeVars

\* mouseup / touchend on the document: handleEnd of every bound view clears
\* its isDrawing; onEnd is null.
ScratchEnd ==
    /\ overlay.drawing # {}
    /\ overlay' = [overlay EXCEPT !.drawing = {}]
    /\ UNCHANGED <<isScratchingEffect, timers>>
    /\ UNCHANGED <<pngBlob, metadata, metadataAbsent, blobWithMetadata, extracted, step,
                   walkVars, exifInj, exifRead>>
    /\ UNCHANGED pipeVars

\* The setTimeout callback of autoRemoveOverlay: canvas.remove() and
\* setScratchingStatus(false).
OverlayTimer(u) ==
    /\ u \in timers
    /\ timers' = timers \ {u}
    /\ overlay' = [overlay EXCEPT !.removed = @ \cup {u}]
    /\ isScratchingEffect' = FALSE
    /\ UNCHANGED <<pngBlob, metadata, metadataAbsent, blobWithMetadata, extracted, step,
                   walkVars, exifInj, exifRead>>
    /\ UNCHANGED pipeVars

\* the user's gestures on a scratch view
ScratchGesture ==
    \/ \E u \in Urls, more \in BOOLEAN : ScratchStart(u, more)
    \/ \E u \in Urls, more \in BOOLEAN : ScratchMove(u, more)
    \/ ScratchEnd

\* the tasks the event loop owes to the scratch views
ScratchTask ==
    \/ \E u \in Urls : ScratchImgLoad(u)
    \/ \E u \in Urls : OverlayTimer(u)

ScratchNext == LiveNext \/ ScratchGesture \/ ScratchTask

\* The pipeline with its scratch views: every queued task and timer runs.
ScratchSpec ==
    Init /\ [][ScratchNext]_vars /\ WF_vars(Completion) /\ WF_vars(ScratchTask)

\* initContainerClickHandler: the click returns without opening the picker
ContainerClickBlocked == isScratchingEffect

\* C33: once the flag is true and no scratch canvas is left in the document
\* (the overlay was removed, or a new image replaced the scratch view), the
\* flag becomes false again, so the container click is not blocked for ever.
C33_FlagReturnsToFalse ==
    (ContainerClickBlocked /\ ~\E u \in Urls : CanvasInDocument(u)) ~> ~ContainerClickBlocked

====
